---- MODULE Spec2Model ----
(***************************************************************************)
(* Sequential multi-agent orchestration pipeline of ragsaurus:             *)
(*   DocumentProcessingTeam.processDocuments  (team)                       *)
(*   EnhanceMetadataTask.execute              (batch coordinator)          *)
(*   EnhanceMetadataTask.processFileSequentially (per-document pipeline)   *)
(*   EnhanceMetadataTask.runAgentSafely       (safe execution wrapper)     *)
(*   EnhanceMetadataTask.calculateConsolidatedRAGScore                     *)
(* Every await of the code is a step of the model; the file system, the    *)
(* agents and the pull-request tool are the environment and answer each    *)
(* call nondeterministically.                                              *)
(***************************************************************************)
EXTENDS Integers, Sequences, FiniteSets, TLC

\* ------------------------------------------------------------ bounds
\* documents handed to one batch
MaxDocs == 2
\* agents configured on the task
MaxAgents == 2
\* agents configured on a task that is called directly with one document
MaxSoloAgents == 3
\* wrapper calls of one batch in which the environment may misbehave
\* (I/O faults, an agent that throws, writes to its handle or returns an
\* unusual payload); every other wrapper call runs the nominal way
MaxFaultyCalls == 1
\* length of the agentResults lists handed to the score function on its own
MaxResults == 2
\* execute calls made in one process, one after the other or overlapping
MaxRuns == 2
\* console emissions made by the pipelines, their agents and the rest of
\* the process, besides the ones execute and the logger always make
MaxEmissions == 2
\* characters in an agent's name
MaxNameLen == 2
\* milliseconds the clock may advance while two wrapper invocations are named
MaxClock == 1
\* distinct agents a caller may add to or remove from the team
MaxTeamNames == 2

\* ------------------------------------------------------------ values
AgentNames == <<"A", "B", "C", "D", "E">>
OriginalOf == <<"p1", "p2", "p3", "p4">>
\* what an agent may write to the path it is handed ("" truncates the file)
Written == {"", "q"}
NoWrite == "<no write>"
\* a restructuredContent that is not a string (an object, a number)
NonString == "<not a string>"
Null == [null |-> TRUE]
\* a string that holds a surrogate code unit without its pair (half of a
\* character outside the basic plane), and the string in which that unit is
\* the replacement character U+FFFD
LoneSurrogate == "<lone surrogate>"
Replaced == "<U+FFFD>"

IsString(v) == v # NonString
\* JavaScript truthiness of a string
Truthy(s) == s # ""

\* ------------------------------------------------------------ payloads
\* What analyzeContent may return.  A payload is a JavaScript object: a key
\* that is not in the DOMAIN is undefined.
PNominal == [enhancedMetadata |-> [taxonomyScore |-> 85], improvements |-> <<"i">>]
PBare == [note |-> "no metadata"]
PRestructured ==
    [enhancedMetadata |-> [chunkingScore |-> 60], improvements |-> <<"r">>,
     restructuredContent |-> "q"]
PBig == [enhancedMetadata |-> [ragScore |-> 150], improvements |-> <<"b">>]
PNonString == [enhancedMetadata |-> [seoScore |-> 80], restructuredContent |-> NonString]
Payloads == {PNominal, PBare, PRestructured, PBig, PNonString}
\* a restructuredContent that was cut in the middle of a character
PCutInHalf == [note |-> "truncated", restructuredContent |-> LoneSurrogate]

\* ------------------------------------------------------------ pure helpers
RECURSIVE SumSeq(_)
SumSeq(s) == IF s = <<>> THEN 0 ELSE s[1] + SumSeq(Tail(s))

\* Math.round(num / den) for den > 0: the nearest integer, halves upwards
MathRound(num, den) == (2 * num + den) \div (2 * den)

\* metadata.k of a JavaScript object: undefined is falsy, as the number 0 is
Field(m, k) == IF k \in DOMAIN m THEN m[k] ELSE 0

\* a || b on numbers
OrElse(a, b) == IF a # 0 THEN a ELSE b

DefaultScore == 75

\* a selection with ?? in place of ||: the first score that is defined
PickFirstDefined(m) ==
    CASE "ragScore" \in DOMAIN m -> m.ragScore
      [] "chunkingScore" \in DOMAIN m -> m.chunkingScore
      [] "validationScore" \in DOMAIN m -> m.validationScore
      [] "seoScore" \in DOMAIN m -> m.seoScore
      [] OTHER -> DefaultScore

\* metadata.ragScore || metadata.chunkingScore || metadata.validationScore ||
\* metadata.seoScore || 75
PickScore(m) ==
    OrElse(Field(m, "ragScore"),
      OrElse(Field(m, "chunkingScore"),
        OrElse(Field(m, "validationScore"),
          OrElse(Field(m, "seoScore"), DefaultScore))))

\* result.result && result.result.enhancedMetadata
HasMetadata(r) == r.result # Null /\ "enhancedMetadata" \in DOMAIN r.result

\* the scores array built by the forEach of calculateConsolidatedRAGScore
RECURSIVE CollectScores(_)
CollectScores(rs) ==
    IF rs = <<>> THEN <<>>
    ELSE LET r == rs[1]
             rest == CollectScores(Tail(rs))
         IN  IF HasMetadata(r) /\ PickScore(r.result.enhancedMetadata) > 0
             THEN <<PickScore(r.result.enhancedMetadata)>> \o rest
             ELSE rest

calculateConsolidatedRAGScore(rs) ==
    LET scores == CollectScores(rs)
    IN  IF Len(scores) > 0 THEN MathRound(SumSeq(scores), Len(scores))
        ELSE DefaultScore

\* Agent Statistics: name -> counters.  The processing times are wall-clock
\* differences and are left out of the counters.
NewCounters == [successful |-> 0, failed |-> 0]

initializeAgentStats(ags) ==
    [n \in {ags[i] : i \in 1..Len(ags)} |-> NewCounters]

updateAgentStats(stats, name, success) ==
    LET base == IF name \in DOMAIN stats THEN stats
                ELSE [n \in DOMAIN stats \cup {name} |->
                        IF n = name THEN NewCounters ELSE stats[n]]
    IN  IF success
        THEN [base EXCEPT ![name].successful = @ + 1]
        ELSE [base EXCEPT ![name].failed = @ + 1]

RECURSIVE PositiveScores(_)
PositiveScores(es) ==
    IF es = <<>> THEN <<>>
    ELSE IF es[1].ragScore > 0
         THEN <<es[1].ragScore>> \o PositiveScores(Tail(es))
         ELSE PositiveScores(Tail(es))

RECURSIVE CountImprovements(_)
CountImprovements(es) ==
    IF es = <<>> THEN 0
    ELSE Len(es[1].improvements) + CountImprovements(Tail(es))

generateWorkflowSummary(enh, errs, ags) ==
    LET successful == Len(enh)
        failed == Len(errs)
        ragScores == PositiveScores(enh)
    IN  [totalFiles |-> successful + failed,
         successful |-> successful,
         failed |-> failed,
         errors |-> failed,
         averageRagScore |->
             IF Len(ragScores) > 0
             THEN MathRound(SumSeq(ragScores), Len(ragScores)) ELSE 0,
         agentCount |-> Len(ags),
         agentCollaborations |-> successful * Len(ags),
         totalImprovements |-> CountImprovements(enh)]

\* ------------------------------------------------------------ state
VARIABLES
    entry,            \* "team": processDocuments is called; "task": execute is
    processedFiles,   \* the list of documents the caller holds
    agents,           \* EnhanceMetadataTask.agents, a list of agent names
    context,          \* the context object execute was called with
    files,            \* the authoritative store: document path -> content
    tempStore,        \* .temp-agent-processing: temp file name -> content
    now,              \* Date.now(); the clock stands still during a batch, so
                      \* every call of one agent builds the same temp file name
    inflight,         \* the analyzeContent call that has not settled yet
    faultyCalls,      \* wrapper calls in which the environment misbehaved
    ioFaults,         \* the I/O calls of the wrapper that can fail in this run
    pc,               \* where the (single-threaded) control is
    fileIdx,          \* position of the for-of loop of execute
    enhancements, errors, agentStats, summary, prPayload, publisherCalls,
    returned,         \* what execute returned
    teamReturned,     \* what processDocuments returned
    originalContent, currentContent, agentResults, allImprovements,
    contentEvolution,
    agentIdx,         \* i + 1 of the for loop of processFileSequentially
    free,             \* whether the environment may misbehave in this call
    tempFilePath, result, resultContent,
    started,          \* wrapper calls begun: [doc, agent, content]
    finishedCalls,    \* wrapper calls that returned or threw
    reads,            \* reads of authoritative documents, by path
    wrapperThrew,     \* the wrapper calls <<doc, agent>> that threw
    ragScore          \* output of the score function run on its own

\* the console of the process and the run loggers (RunLogger)
VARIABLES
    console,          \* the global console: method name -> function
    loggers,          \* the RunLogger objects built so far, by identity
    runRecords,       \* the log file of each RunLogger: the lines appended
    delivered,        \* what reached the terminal through the native console
    runLogger,        \* this.runLogger of each task object (0: null)
    runs,             \* the execute calls: position, task object, outcome
    owed,             \* for each RunLogger, the emissions made during its run
    live,             \* the RunLoggers whose run has not reached finalize
    emissions         \* emissions made so far besides the ones always made

\* what each wrapper call did, in the order of started
VARIABLES
    callLog           \* untouched: the agent of the call under way returned and
                      \* left its copy as written; leftBehind: the copies whose
                      \* removal failed; invoked: analyzeContent calls made by
                      \* the wrapper call under way

\* nothing observed yet, and a note made of the call under way
NoCalls == [untouched |-> FALSE, leftBehind |-> {}, invoked |-> 0]
Noted(log, k, v) == [log EXCEPT ![k] = v]

\* the plugin entry point around the team
VARIABLES
    rag               \* runRAGProcessing: where it is, what it found and returned

\* two wrapper invocations seen from their temp file names only
VARIABLES
    naming            \* the agents' names, the clock, the paths built so far

\* the DocumentProcessingTeam object
VARIABLES
    team              \* this.agents, this.tasks (each task with its own agents)
                      \* and what the last call on the team returned

\* a call of GitHubPRTool.createEnhancementPR
VARIABLES
    tool              \* its position, its arguments, the requests it has sent
                      \* to GitHub and what it returned

outerVars == <<rag, naming, team, tool>>

\* runRAGProcessing is not running
OuterIdle ==
    /\ rag = [pc |-> "idle"]
    /\ naming = [pc |-> "idle"]
    /\ team = [pc |-> "idle"]
    /\ tool = [pc |-> "idle"]

\* this.agents of the team that calls the task: where the team object is not
\* followed, the team has just been initialized and holds the task's agents
teamAgents == IF team.pc = "idle" THEN agents ELSE team.agents

logVars == <<console, loggers, runRecords, delivered, runLogger, runs, owed,
             live, emissions>>

inputVars == <<entry, processedFiles, agents>>
envVars == <<files, tempStore, now, inflight, faultyCalls, ioFaults>>
batchVars == <<context, fileIdx, enhancements, errors, agentStats, summary,
               prPayload, publisherCalls, returned, teamReturned>>
docVars == <<originalContent, currentContent, agentResults, allImprovements,
             contentEvolution, agentIdx>>
wrapVars == <<free, tempFilePath, result, resultContent>>
obsVars == <<started, finishedCalls, reads, wrapperThrew>>
vars == <<inputVars, envVars, batchVars, docVars, wrapVars, obsVars, pc, ragScore,
          logVars, callLog, outerVars>>

None == [none |-> TRUE]

\* the documents a caller may hand to processDocuments or to execute: document
\* k lives at path k
Doc(k, needs) == [path |-> k, title |-> k, needsEnhancement |-> needs]

DocLists(flags) ==
    UNION {[1..n -> flags] : n \in 0..MaxDocs}

fullPath(fileInfo) == fileInfo.path

ctxFiles == context.processedFiles

\* the I/O calls of runAgentSafely
IOCalls == {"ensureDir", "writeFile", "readFile", "removeFile", "removeDir"}

\* ------------------------------------------------------------ console
\* the console methods the code calls
Methods == {"log", "warn", "error"}

\* a function held by a console method: the method the process started with,
\* or the closure installed by setupConsoleCapture of the logger with this
\* identity
Native(m) == [kind |-> "native", method |-> m]
Capture(id, m) == [kind |-> "capture", logger |-> id, method |-> m]

NativeConsole == [m \in Methods |-> Native(m)]

IdleRun == [pc |-> "idle"]

\* no execute call has been made and nothing was emitted
LogIdle ==
    /\ console = NativeConsole
    /\ loggers = <<>>
    /\ runRecords = <<>>
    /\ delivered = <<>>
    /\ runLogger = [t \in 1..MaxRuns |-> 0]
    /\ runs = [r \in 1..MaxRuns |-> IdleRun]
    /\ owed = <<>>
    /\ live = {}
    /\ emissions = 0

\* ------------------------------------------------------------ Init
\* Either the team is handed up to MaxDocs documents, and directory creation
\* is the I/O call of the wrapper that can fail; or a caller hands the task
\* itself no document or one, with up to MaxSoloAgents agents (none too), and
\* every I/O call of the wrapper can fail.
Init ==
    /\ \/ /\ entry = "team"
          /\ \E fl \in DocLists(BOOLEAN) :
                processedFiles = [k \in DOMAIN fl |-> Doc(k, fl[k])]
          /\ ioFaults = {"ensureDir"}
       \/ /\ entry = "task"
          /\ processedFiles \in {<<>>, <<Doc(1, TRUE)>>}
          /\ ioFaults = IOCalls
    /\ \E n \in (IF entry = "team" THEN 1..MaxAgents ELSE 0..MaxSoloAgents) :
          agents = SubSeq(AgentNames, 1, n)
    /\ context = None
    /\ files = [k \in 1..MaxDocs |-> OriginalOf[k]]
    /\ tempStore = <<>>
    /\ now = 0
    /\ inflight = None
    /\ faultyCalls = 0
    /\ pc = "start"
    /\ fileIdx = 0
    /\ enhancements = <<>>
    /\ errors = <<>>
    /\ agentStats = <<>>
    /\ summary = None
    /\ prPayload = None
    /\ publisherCalls = 0
    /\ returned = None
    /\ teamReturned = None
    /\ originalContent = None
    /\ currentContent = None
    /\ agentResults = <<>>
    /\ allImprovements = <<>>
    /\ contentEvolution = <<>>
    /\ agentIdx = 0
    /\ free = FALSE
    /\ tempFilePath = None
    /\ result = None
    /\ resultContent = None
    /\ started = <<>>
    /\ finishedCalls = 0
    /\ reads = <<>>
    /\ wrapperThrew = {}
    /\ ragScore = None
    /\ LogIdle
    /\ callLog = NoCalls
    /\ OuterIdle

\* ------------------------------------------------------------ team
\* file.needsEnhancement as a condition: a property the object does not have
\* is undefined, which is falsy
Flagged(f) == "needsEnhancement" \in DOMAIN f /\ f.needsEnhancement

\* processedFiles.filter(file => file.needsEnhancement)
filesToEnhance(pf) == SelectSeq(pf, Flagged)
skippedFiles(pf) == SelectSeq(pf, LAMBDA f : ~Flagged(f))

\* processDocuments up to its await of enhanceTask.execute(context).  The team
\* is initialized: its agents are the task's agents.
ProcessDocumentsStart ==
    /\ pc = "start" /\ entry = "team"
    /\ IF Len(filesToEnhance(processedFiles)) = 0
       THEN /\ teamReturned' =
                 [success |-> TRUE,
                  summary |-> [totalFiles |-> Len(processedFiles),
                               successful |-> 0,
                               skipped |-> Len(skippedFiles(processedFiles)),
                               errors |-> 0,
                               averageRagScore |-> 0,
                               agentCount |-> Len(teamAgents)],
                  enhancements |-> <<>>,
                  errors |-> <<>>]
            /\ pc' = "teamDone"
            /\ UNCHANGED context
       ELSE /\ context' = [processedFiles |-> filesToEnhance(processedFiles),
                           teamName |-> "DocumentProcessingTeam",
                           agentCount |-> Len(teamAgents)]
            /\ pc' = "execute"
            /\ UNCHANGED teamReturned
    /\ UNCHANGED <<outerVars, callLog, logVars, inputVars, envVars, docVars, wrapVars, obsVars, ragScore,
                   fileIdx, enhancements, errors, agentStats, summary,
                   prPayload, publisherCalls, returned>>

\* a team that adds the skipped count and keeps the task's totalFiles
TeamSummaryKeepsTotal(sum, pf, ags) ==
    [k \in DOMAIN sum \cup {"skipped"} |->
        CASE k = "skipped" -> Len(SelectSeq(pf, LAMBDA f : ~Flagged(f)))
          [] k = "agentCount" -> Len(ags)
          [] OTHER -> sum[k]]

\* result.summary.skipped / totalFiles / agentCount are overwritten on success
TeamSummary(sum, pf, ags) ==
    [k \in DOMAIN sum \cup {"skipped"} |->
        CASE k = "skipped" -> Len(skippedFiles(pf))
          [] k = "totalFiles" -> Len(pf)
          [] k = "agentCount" -> Len(ags)
          [] OTHER -> sum[k]]

\* processDocuments after execute has returned
ProcessDocumentsFinish ==
    /\ pc = "returned" /\ entry = "team"
    /\ teamReturned' =
          IF returned.success
          THEN [returned EXCEPT !.summary = TeamSummary(@, processedFiles,
                                                        teamAgents)]
          ELSE returned
    /\ pc' = "teamDone"
    /\ UNCHANGED <<outerVars, callLog, logVars, inputVars, envVars, docVars, wrapVars, obsVars, ragScore,
                   context, fileIdx, enhancements, errors, agentStats, summary,
                   prPayload, publisherCalls, returned>>

\* ------------------------------------------------------------ execute
\* a caller invokes execute(context) on the task directly, with a context
\* that holds its list or holds no processedFiles at all
CallExecute ==
    /\ pc = "start" /\ entry = "task"
    /\ context' \in {[processedFiles |-> processedFiles]}
                      \cup (IF processedFiles = <<>>
                            THEN {[teamName |-> "caller"]} ELSE {})
    /\ pc' = "execute"
    /\ UNCHANGED <<outerVars, callLog, logVars, inputVars, envVars, docVars, wrapVars, obsVars, ragScore,
                   fileIdx, enhancements, errors, agentStats, summary,
                   prPayload, publisherCalls, returned, teamReturned>>

\* a validation that lacks the check of the agent list
ValidFilesOnly(ctx, ags) ==
    /\ "processedFiles" \in DOMAIN ctx
    /\ Len(ctx.processedFiles) > 0

\* a validation that lacks the check of the document list
ValidAgentsOnly(ctx, ags) == Len(ags) > 0

\* the two input validations of execute
ValidInput(ctx, ags) ==
    /\ "processedFiles" \in DOMAIN ctx
    /\ Len(ctx.processedFiles) > 0
    /\ Len(ags) > 0

ErrorMessage(ctx) ==
    IF "processedFiles" \notin DOMAIN ctx \/ Len(ctx.processedFiles) = 0
    THEN "Invalid processedFiles"
    ELSE "No agents available for processing"

\* execute from its entry to the first await (the read of the first document),
\* or to the return of its catch block
ExecuteBegin ==
    /\ pc = "execute"
    /\ IF ValidInput(context, agents)
       THEN /\ enhancements' = <<>>
            /\ errors' = <<>>
            /\ agentStats' = initializeAgentStats(agents)
            /\ fileIdx' = 1
            /\ pc' = "read"
            /\ UNCHANGED returned
       ELSE /\ returned' = [success |-> FALSE, error |-> ErrorMessage(context)]
            /\ pc' = "returned"
            /\ UNCHANGED <<enhancements, errors, agentStats, fileIdx>>
    /\ UNCHANGED <<outerVars, callLog, logVars, inputVars, envVars, docVars, wrapVars, obsVars, ragScore,
                   context, summary, prPayload, publisherCalls, teamReturned>>

\* a loop that ends with the document at hand
StopBatch(idx, pf) == "summary"

\* the for-of loop of execute: the next document, or the summary
AfterFile(idx, pf) == IF idx <= Len(pf) THEN "read" ELSE "summary"

\* const originalContent = await fs.readFile(fullPath, 'utf8'), and the
\* initialisation of the pipeline's locals; a failed read is caught by the
\* per-document catch of execute
ReadOriginal ==
    /\ pc = "read"
    /\ LET fileInfo == ctxFiles[fileIdx]
       IN  /\ reads' = Append(reads, fullPath(fileInfo))
           /\ \/ /\ originalContent' = files[fullPath(fileInfo)]
                 /\ currentContent' = files[fullPath(fileInfo)]
                 /\ agentResults' = <<>>
                 /\ allImprovements' = <<>>
                 /\ contentEvolution' =
                       <<[stage |-> "original",
                          content |-> files[fullPath(fileInfo)]]>>
                 /\ agentIdx' = 1
                 /\ pc' = "agent"
                 /\ UNCHANGED <<errors, fileIdx>>
              \/ /\ errors' = Append(errors, [file |-> fileInfo.title,
                                              error |-> "read failed"])
                 /\ fileIdx' = fileIdx + 1
                 /\ pc' = AfterFile(fileIdx + 1, ctxFiles)
                 /\ UNCHANGED docVars
    /\ UNCHANGED <<outerVars, callLog, logVars, inputVars, envVars, wrapVars, ragScore, started,
                   finishedCalls, wrapperThrew, context, enhancements,
                   agentStats, summary,
                   prPayload, publisherCalls, returned, teamReturned>>

\* ------------------------------------------------------------ pipeline
\* { ...result, content: c }
WithContent(p, c) ==
    [k \in DOMAIN p \cup {"content"} |-> IF k = "content" THEN c ELSE p[k]]

\* a comparison without the truthiness test of result.content
NewContentAnyDifference(res, cur) ==
    IF res.content # cur THEN res.content
    ELSE IF /\ "restructuredContent" \in DOMAIN res
            /\ res.restructuredContent # cur
         THEN res.restructuredContent
         ELSE cur

\* lines 183-193: the content the next agent gets
NewContent(res, cur) ==
    IF Truthy(res.content) /\ res.content # cur THEN res.content
    ELSE IF /\ "restructuredContent" \in DOMAIN res
            /\ Truthy(res.restructuredContent)
            /\ res.restructuredContent # cur
         THEN res.restructuredContent
         ELSE cur

\* the entry pushed by the try block (lines 205-212); curAfter is
\* currentContent as it is when the entry is built
SuccessResult(name, pos, res, newContent, curAfter) ==
    [agentName |-> name, result |-> res,
     contentModified |-> (newContent # curAfter), sequencePosition |-> pos]

\* the entry pushed by the catch block (lines 217-225)
FailedResult(name, pos, err) ==
    [agentName |-> name, result |-> Null, error |-> err,
     contentModified |-> FALSE, sequencePosition |-> pos]

\* a catch block that records nothing
ForgetFailure(rs, name, pos, err) == rs

RecordFailure(rs, name, pos, err) == Append(rs, FailedResult(name, pos, err))

\* a loop that a caught failure ends
AbortPipeline(i) == Len(AgentNames) + 1

\* a loop that skips the agent after a successful one
SkipAgent(i) == i + 2

\* i++ of the for loop after the try block completed
NextAgent(i) == i + 1

\* the for loop of processFileSequentially goes on after a caught failure
AfterFailure(i) == i + 1

\* the wrapper threw: the catch block of the agent loop
WrapperThrows(err) ==
    /\ agentStats' = updateAgentStats(agentStats, agents[agentIdx], FALSE)
    /\ agentResults' = RecordFailure(agentResults, agents[agentIdx], agentIdx, err)
    /\ agentIdx' = AfterFailure(agentIdx)
    /\ finishedCalls' = finishedCalls + 1
    /\ pc' = "agent"
    /\ UNCHANGED <<currentContent, contentEvolution, allImprovements,
                   originalContent>>

\* the wrapper returned res: the rest of the try block of the agent loop.
\* newContent.split throws when newContent is not a string; the statistics
\* and the improvements were updated before that.
WrapperReturns(res) ==
    LET name == agents[agentIdx]
        stats1 == updateAgentStats(agentStats, name, TRUE)
        impr == IF "improvements" \in DOMAIN res THEN res.improvements ELSE <<>>
        newContent == NewContent(res, currentContent)
        changed == newContent # currentContent
    IN  /\ allImprovements' = allImprovements \o impr
        /\ IF changed /\ ~IsString(newContent)
           THEN /\ agentStats' = updateAgentStats(stats1, name, FALSE)
                /\ agentResults' =
                      RecordFailure(agentResults, name, agentIdx, <<"TypeError">>)
                /\ agentIdx' = AfterFailure(agentIdx)
                /\ UNCHANGED <<currentContent, contentEvolution>>
           ELSE /\ agentStats' = stats1
                /\ contentEvolution' =
                      IF changed
                      THEN Append(contentEvolution,
                                  [stage |-> name, content |-> newContent])
                      ELSE contentEvolution
                /\ currentContent' = newContent
                /\ agentResults' =
                      Append(agentResults,
                             SuccessResult(name, agentIdx, res, newContent,
                                           currentContent'))
                /\ agentIdx' = NextAgent(agentIdx)
        /\ finishedCalls' = finishedCalls + 1
        /\ pc' = "agent"
        /\ UNCHANGED originalContent

\* an enhancement whose final content is the content read at the start
EnhancementOfOriginal(fileInfo) ==
    [filePath |-> fullPath(fileInfo),
     relativePath |-> fileInfo.path,
     originalContent |-> originalContent,
     finalContent |-> originalContent,
     contentEvolution |-> contentEvolution,
     agentResults |-> agentResults,
     improvements |-> allImprovements,
     ragScore |-> calculateConsolidatedRAGScore(agentResults)]

\* the loop is over: lines 231-261, and enhancements.push of execute
Enhancement(fileInfo) ==
    [filePath |-> fullPath(fileInfo),
     relativePath |-> fileInfo.path,
     originalContent |-> originalContent,
     finalContent |-> currentContent,
     contentEvolution |-> contentEvolution,
     agentResults |-> agentResults,
     improvements |-> allImprovements,
     ragScore |-> calculateConsolidatedRAGScore(agentResults)]

FinishDocument ==
    /\ pc = "agent" /\ agentIdx > Len(agents)
    /\ enhancements' = Append(enhancements, Enhancement(ctxFiles[fileIdx]))
    /\ fileIdx' = fileIdx + 1
    /\ pc' = AfterFile(fileIdx + 1, ctxFiles)
    /\ UNCHANGED <<outerVars, callLog, logVars, inputVars, envVars, docVars, wrapVars, obsVars, ragScore,
                   context, errors, agentStats, summary, prPayload,
                   publisherCalls, returned, teamReturned>>

\* ------------------------------------------------------------ wrapper
\* agent.name.replace(/[^a-z0-9]/gi, '-'): the names of AgentNames are
\* alphanumeric and stay as they are
Sanitize(name) == name

\* `temp-${sanitized name}-${Date.now()}.md` inside the temp directory
TempName(name, t) == <<"temp", Sanitize(name), t>>

TempHandle(n) == [kind |-> "temp", path |-> n]
FileHandle(path) == [kind |-> "file", path |-> path]

Put(store, key, c) ==
    [k \in DOMAIN store \cup {key} |-> IF k = key THEN c ELSE store[k]]
\* a removal that reports success and removes nothing
KeepCopy(store, key) == store
Drop(store, key) == [k \in DOMAIN store \ {key} |-> store[k]]

\* what one analyzeContent call may do: write to the path it is handed or
\* not, then throw or return a payload
Outcomes(f) ==
    IF f
    THEN {[throws |-> TRUE, writes |-> w, payload |-> PNominal] :
              w \in Written \cup {NoWrite}}
         \cup [throws : {FALSE}, writes : Written \cup {NoWrite},
               payload : Payloads]
         \cup {[throws |-> FALSE, writes |-> NoWrite, payload |-> PCutInHalf]}
    ELSE {[throws |-> FALSE, writes |-> NoWrite, payload |-> PNominal]}

\* the outcomes of an I/O call: it fails only where the environment may
IOFails(f, call) == IF f /\ call \in ioFaults THEN {FALSE, TRUE} ELSE {FALSE}

\* the wrapper's locals go out of scope when it returns or throws
WrapperExit ==
    /\ free' = FALSE
    /\ tempFilePath' = None
    /\ result' = None
    /\ resultContent' = None

wrapperFrame == <<outerVars, logVars, inputVars, batchVars, docVars, ragScore, obsVars, free>>

\* the loop head with i < this.agents.length: runAgentSafely is called, and
\* its await fs.ensureDir(tempDir) settles
StartWrapper ==
    /\ pc = "agent" /\ agentIdx <= Len(agents)
    /\ \E f \in BOOLEAN :
          /\ f => faultyCalls < MaxFaultyCalls
          /\ free' = f
          /\ faultyCalls' = faultyCalls + (IF f THEN 1 ELSE 0)
          /\ \E fails \in IOFails(f, "ensureDir") :
                pc' = IF fails THEN "cleanup" ELSE "writeTemp"
    /\ started' = Append(started, [doc |-> fileIdx, agent |-> agentIdx,
                                   content |-> currentContent])
    /\ UNCHANGED <<outerVars, callLog, logVars, inputVars, batchVars, docVars, ragScore, files, tempStore,
                   now, inflight, ioFaults, finishedCalls, reads, wrapperThrew,
                   tempFilePath, result, resultContent>>

\* what fs.readFile(path, 'utf8') gives back of what
\* fs.writeFile(path, c, 'utf8') stored: the UTF-8 encoder writes U+FFFD for
\* a surrogate that has no pair
Utf8RoundTrip(c) == IF c = LoneSurrogate THEN Replaced ELSE c

\* the handle the primary call hands to the agent
PrimaryHandle(temp, file) == TempHandle(temp)

\* the temp file name is built and the content written to it; then
\* const result = await agent.analyzeContent(tempFilePath, content, {})
\* begins
WriteTemp ==
    /\ pc = "writeTemp"
    /\ tempFilePath' = TempName(agents[agentIdx], now)
    /\ \E fails \in IOFails(free, "writeFile") :
          IF fails
          THEN pc' = "cleanup" /\ UNCHANGED <<tempStore, inflight, callLog>>
          ELSE /\ callLog' = Noted(callLog, "invoked", 1)
               /\ tempStore' = Put(tempStore, tempFilePath',
                                   Utf8RoundTrip(currentContent))
               /\ inflight' =
                     [agent |-> agents[agentIdx],
                      handle |-> PrimaryHandle(tempFilePath',
                                               fullPath(ctxFiles[fileIdx])),
                      content |-> currentContent]
               /\ pc' = "agentRun"
    /\ UNCHANGED <<wrapperFrame, files, now, faultyCalls, ioFaults,
                   result, resultContent>>

\* the agent writes w to the path it was handed
WriteHandle(h, w) ==
    IF w = NoWrite THEN UNCHANGED <<files, tempStore>>
    ELSE IF h.kind = "temp"
         THEN tempStore' = Put(tempStore, h.path, w) /\ UNCHANGED files
         ELSE files' = [files EXCEPT ![h.path] = w] /\ UNCHANGED tempStore

\* the primary call settles
AgentSettlesPrimary ==
    /\ pc = "agentRun"
    /\ \E o \in Outcomes(free) :
          /\ WriteHandle(inflight.handle, o.writes)
          /\ IF o.throws
             THEN pc' = "cleanup" /\ UNCHANGED result
             ELSE pc' = "readBack" /\ result' = o.payload
          /\ callLog' = Noted(callLog, "untouched",
                              ~o.throws /\ o.writes = NoWrite)
    /\ inflight' = None
    /\ UNCHANGED <<wrapperFrame, now, faultyCalls, ioFaults, tempFilePath,
                   resultContent>>

\* let resultContent = content; try { resultContent = await fs.readFile(...) }
ReadBack ==
    /\ pc = "readBack"
    /\ \E fails \in IOFails(free, "readFile") :
          resultContent' =
             IF fails \/ tempFilePath \notin DOMAIN tempStore
             THEN currentContent ELSE tempStore[tempFilePath]
    /\ pc' = "removeTemp"
    /\ UNCHANGED <<callLog, wrapperFrame, envVars, tempFilePath, result>>

\* try { await fs.remove(tempFilePath) }, then return {...result, content}
RemoveTemp ==
    /\ pc = "removeTemp"
    /\ \E fails \in IOFails(free, "removeFile") :
          /\ tempStore' = IF fails THEN tempStore
                          ELSE Drop(tempStore, tempFilePath)
          /\ callLog' = [untouched |-> FALSE, invoked |-> 0,
                         leftBehind |->
                            IF fails
                            THEN callLog.leftBehind \cup {tempFilePath}
                            ELSE callLog.leftBehind \ {tempFilePath}]
    /\ WrapperReturns(WithContent(result, resultContent))
    /\ WrapperExit
    /\ UNCHANGED <<outerVars, logVars, inputVars, ragScore, started, reads, wrapperThrew, files, now,
                   inflight, faultyCalls, ioFaults, context, fileIdx,
                   enhancements, errors, summary, prPayload, publisherCalls,
                   returned, teamReturned>>

\* the handle the fallback call hands to the agent
FallbackHandle(temp, file) == FileHandle(file)

\* the catch block: try { await fs.remove(tempDir) }; then
\* const result = await agent.analyzeContent(filePath, content, {}) begins
Cleanup ==
    /\ pc = "cleanup"
    /\ \E fails \in IOFails(free, "removeDir") :
          /\ tempStore' = IF fails THEN tempStore ELSE <<>>
          /\ callLog' = [untouched |-> FALSE,
                         invoked |-> callLog.invoked + 1,
                         leftBehind |->
                            IF fails
                            THEN callLog.leftBehind \cup DOMAIN tempStore
                            ELSE {}]
    /\ inflight' = [agent |-> agents[agentIdx],
                    handle |-> FallbackHandle(tempFilePath,
                                              fullPath(ctxFiles[fileIdx])),
                    content |-> currentContent]
    /\ pc' = "fallbackRun"
    /\ UNCHANGED <<wrapperFrame, files, now, faultyCalls, ioFaults,
                   tempFilePath, result, resultContent>>

\* the fallback call settles: return {...result, content: content}, or
\* throw new Error(`Agent ${agent.name} failed: ...`)
AgentSettlesFallback ==
    /\ pc = "fallbackRun"
    /\ \E o \in Outcomes(free) :
          /\ WriteHandle(inflight.handle, o.writes)
          /\ IF o.throws
             THEN /\ WrapperThrows(<<"Agent", agents[agentIdx], "failed">>)
                  /\ wrapperThrew' = wrapperThrew \cup {<<fileIdx, agentIdx>>}
             ELSE /\ WrapperReturns(WithContent(o.payload, currentContent))
                  /\ UNCHANGED wrapperThrew
    /\ inflight' = None
    /\ WrapperExit
    /\ callLog' = Noted(callLog, "invoked", 0)
    /\ UNCHANGED <<outerVars, logVars, inputVars, ragScore, started, reads, now,
                   faultyCalls, ioFaults, context, fileIdx, enhancements,
                   errors, summary, prPayload, publisherCalls, returned,
                   teamReturned>>

\* ------------------------------------------------------------ publisher
\* a payload that proposes the content the documents already have
proposedOriginals(enh) ==
    [k \in DOMAIN enh |->
        [filePath |-> enh[k].filePath,
         relativePath |-> enh[k].relativePath,
         enhancedContent |-> enh[k].originalContent,
         originalContent |-> enh[k].originalContent,
         improvements |-> enh[k].improvements,
         ragScore |-> enh[k].ragScore]]

\* enhancements.map(...) of createGitHubPR
proposedEnhancements(enh) ==
    [k \in DOMAIN enh |->
        [filePath |-> enh[k].filePath,
         relativePath |-> enh[k].relativePath,
         enhancedContent |-> enh[k].finalContent,
         originalContent |-> enh[k].originalContent,
         improvements |-> enh[k].improvements,
         ragScore |-> enh[k].ragScore]]

\* the loop of execute is over: the summary is generated and createGitHubPR
\* runs up to its await of githubTool.createEnhancementPR
Summarize ==
    /\ pc = "summary"
    /\ summary' = generateWorkflowSummary(enhancements, errors, agents)
    /\ prPayload' = proposedEnhancements(enhancements)
    /\ publisherCalls' = publisherCalls + 1
    /\ pc' = "publishing"
    /\ UNCHANGED <<outerVars, callLog, logVars, inputVars, envVars, docVars, wrapVars, obsVars, ragScore,
                   context, fileIdx, enhancements, errors, agentStats,
                   returned, teamReturned>>

\* what createGitHubPR returns for each way createEnhancementPR may settle
PRResults(ags) ==
    {[url |-> "pr-url", number |-> "pr-number", branch |-> "pr-branch",
      status |-> "pending_review", agentCollaboration |-> TRUE,
      agentCount |-> Len(ags), sequentialProcessing |-> TRUE],
     [error |-> "publisher reported failure", status |-> "failed"],
     [error |-> "publisher threw", status |-> "failed"]}

\* a return value whose success follows the pull request
FailOnPublishFailure(sum, pr, enh, errs, stats) ==
    [success |-> pr.status # "failed",
     summary |-> [k \in DOMAIN sum \cup {"githubPR"} |->
                     IF k = "githubPR" THEN pr ELSE sum[k]],
     enhancements |-> enh,
     errors |-> errs,
     agentStatistics |-> stats]

\* the value execute returns at the end of its try block
ExecuteResult(sum, pr, enh, errs, stats) ==
    [success |-> TRUE,
     summary |-> [k \in DOMAIN sum \cup {"githubPR"} |->
                     IF k = "githubPR" THEN pr ELSE sum[k]],
     enhancements |-> enh,
     errors |-> errs,
     agentStatistics |-> stats]

\* createEnhancementPR settles, the run logger is finalized, execute returns
PublisherSettles ==
    /\ pc = "publishing"
    /\ \E pr \in PRResults(agents) :
          returned' = ExecuteResult(summary, pr, enhancements, errors, agentStats)
    /\ pc' = "returned"
    /\ UNCHANGED <<outerVars, callLog, logVars, inputVars, envVars, docVars, wrapVars, obsVars, ragScore,
                   context, fileIdx, enhancements, errors, agentStats,
                   summary, prPayload, publisherCalls, teamReturned>>

\* ------------------------------------------------------------ specification
Next ==
    \/ ProcessDocumentsStart
    \/ ProcessDocumentsFinish
    \/ CallExecute
    \/ ExecuteBegin
    \/ ReadOriginal
    \/ StartWrapper
    \/ WriteTemp
    \/ AgentSettlesPrimary
    \/ ReadBack
    \/ RemoveTemp
    \/ Cleanup
    \/ AgentSettlesFallback
    \/ FinishDocument
    \/ Summarize
    \/ PublisherSettles

Spec == Init /\ [][Next]_vars

\* ------------------------------------------------------------ the score function on its own
\* calculateConsolidatedRAGScore applied to agentResults lists of up to
\* MaxResults entries: failed results, results without metadata, and results
\* whose metadata holds any combination of the four recognised score fields.
ScoreChoices ==
    [ragScore : {<<>>, <<0>>, <<80>>},
     chunkingScore : {<<>>, <<60>>},
     validationScore : {<<>>, <<-5>>, <<90>>},
     seoScore : {<<>>, <<150>>}]

ScoreFields == <<"ragScore", "chunkingScore", "validationScore", "seoScore">>

MetaOf(ch) ==
    [k \in {f \in DOMAIN ch : ch[f] # <<>>} |-> ch[k][1]]

ScoreResults(pos) ==
    {FailedResult("A", pos, <<"Agent", "A", "failed">>),
     SuccessResult("A", pos, WithContent(PBare, "p1"), "p1", "p1")}
    \cup {SuccessResult("A", pos,
                        WithContent([enhancedMetadata |-> MetaOf(ch)], "p1"),
                        "p1", "p1") : ch \in ScoreChoices}

InitScore ==
    /\ entry = "task"
    /\ processedFiles = <<>>
    /\ agents = <<>>
    /\ context = None
    /\ files = [k \in 1..MaxDocs |-> OriginalOf[k]]
    /\ tempStore = <<>>
    /\ now = 0
    /\ inflight = None
    /\ faultyCalls = 0
    /\ ioFaults = {}
    /\ pc = "score"
    /\ fileIdx = 0
    /\ enhancements = <<>>
    /\ errors = <<>>
    /\ agentStats = <<>>
    /\ summary = None
    /\ prPayload = None
    /\ publisherCalls = 0
    /\ returned = None
    /\ teamReturned = None
    /\ originalContent = None
    /\ currentContent = None
    /\ agentResults = <<>>
    /\ allImprovements = <<>>
    /\ contentEvolution = <<>>
    /\ agentIdx = 0
    /\ free = FALSE
    /\ tempFilePath = None
    /\ result = None
    /\ resultContent = None
    /\ started = <<>>
    /\ finishedCalls = 0
    /\ reads = <<>>
    /\ wrapperThrew = {}
    /\ ragScore = None
    /\ LogIdle
    /\ callLog = NoCalls
    /\ OuterIdle

scoreFrame == <<outerVars, callLog, logVars, inputVars, envVars, batchVars, wrapVars, obsVars,
                originalContent, currentContent, allImprovements,
                contentEvolution, agentIdx>>

PushResult ==
    /\ pc = "score"
    /\ Len(agentResults) < MaxResults
    /\ \E r \in ScoreResults(Len(agentResults) + 1) :
          agentResults' = Append(agentResults, r)
    /\ UNCHANGED <<scoreFrame, pc, ragScore>>

ComputeScore ==
    /\ pc = "score"
    /\ ragScore' = calculateConsolidatedRAGScore(agentResults)
    /\ pc' = "scored"
    /\ UNCHANGED <<scoreFrame, agentResults>>

NextScore == PushResult \/ ComputeScore

SpecScore == InitScore /\ [][NextScore]_vars

\* ------------------------------------------------------------ run logger
\* The console and the loggers as one value, threaded through the
\* synchronous code between two awaits.  fs.appendFileSync and fs.mkdirSync
\* of the logger succeed, and two loggers write to two files.
IO == [console |-> console, loggers |-> loggers, runRecords |-> runRecords,
       delivered |-> delivered, owed |-> owed, live |-> live]

Commit(io) ==
    /\ console' = io.console
    /\ loggers' = io.loggers
    /\ runRecords' = io.runRecords
    /\ delivered' = io.delivered
    /\ owed' = io.owed
    /\ live' = io.live

\* the level a capturing closure writes: INFO for console.log, ERROR for
\* console.error
LevelOf(m) == IF m = "log" THEN "INFO" ELSE "ERROR"

\* { timestamp, level, message }
LogEntry(level, message) ==
    [timestamp |-> now, level |-> level, message |-> message]

\* this.writeToFile(line) of logger id
writeToFile(io, id, line) ==
    [io EXCEPT !.runRecords[id] = Append(@, line)]

\* the call fn(message) of a function held, now or once, by a console method
RECURSIVE Call(_, _, _)
Call(io, fn, message) ==
    IF fn.kind = "native"
    THEN [io EXCEPT !.delivered =
                       Append(@, [method |-> fn.method, message |-> message])]
    ELSE LET id == fn.logger
             e == LogEntry(LevelOf(fn.method), message)
             pushed == [io EXCEPT !.loggers[id].logEntries = Append(@, e)]
         IN  Call(writeToFile(pushed, id, e),
                  io.loggers[id].originalConsole[fn.method], message)

\* console[m](message), an emission; it is owed to every logger whose run
\* is going on
Emit(io, m, message) ==
    LET e == [method |-> m, message |-> message]
        noted == [io EXCEPT !.owed =
                               [id \in DOMAIN io.owed |->
                                   IF id \in io.live THEN Append(io.owed[id], e)
                                   ELSE io.owed[id]]]
    IN  Call(noted, io.console[m], message)

\* setupConsoleCapture: console.log and console.error are replaced
setupConsoleCapture(cons, id) ==
    [cons EXCEPT !.log = Capture(id, "log"), !.error = Capture(id, "error")]

\* new RunLogger(): the identity of the new logger is the next free one
NewRunLogger(io) ==
    LET id == Len(io.loggers) + 1
        made == [io EXCEPT
                   !.loggers = Append(@, [originalConsole |-> io.console,
                                          logEntries |-> <<>>]),
                   !.runRecords = Append(@, <<>>),
                   !.owed = Append(@, <<>>),
                   !.live = @ \cup {id},
                   !.console = setupConsoleCapture(@, id)]
    IN  Emit(made, "log", "capturing console output")

\* logError(error): one FATAL line, written to the file only
logError(io, id, err) ==
    writeToFile(io, id, LogEntry("FATAL", err))

\* the restoration made by finalize
RestoreConsole(cons, orig) ==
    [cons EXCEPT !.log = orig.log, !.error = orig.error]

\* finalize(summary): the closing block, the restoration, and a message
\* through the original console.log
finalize(io, id, sum) ==
    LET closing == [level |-> "CLOSING", summary |-> sum,
                    total |-> Len(io.loggers[id].logEntries)]
        closed == writeToFile(io, id, closing)
        orig == io.loggers[id].originalConsole
        restored == [closed EXCEPT !.console = RestoreConsole(@, orig)]
    IN  Call(restored, orig.log, "complete log saved")

\* the run of logger id has reached its finalize
Retire(io, id) == [io EXCEPT !.live = @ \ {id}]

\* a variant of the catch block that finalizes without logError
CatchSilently(io, lg, err) ==
    LET said == Emit(io, "error", err)
    IN  IF lg # 0 THEN finalize(said, lg, [error |-> err]) ELSE said

\* the catch block of execute, this.runLogger being lg (0: null)
Catch(io, lg, err) ==
    LET said == Emit(io, "error", err)
    IN  IF lg # 0
        THEN finalize(logError(said, lg, err), lg, [error |-> err])
        ELSE said

\* ------------------------------------------------------------ execute and the console
\* What execute does to the console and the loggers, one action per stretch
\* of synchronous code; the documents, agents and results of the batch are
\* left out.  An execute call is made on a task object: on the one of an
\* earlier call or on a fresh one.
LogInputs ==
    {[ctx |-> [processedFiles |-> <<Doc(1, TRUE)>>], ags |-> <<"A">>],
     [ctx |-> [processedFiles |-> <<>>], ags |-> <<"A">>],
     [ctx |-> [processedFiles |-> <<Doc(1, TRUE)>>], ags |-> <<>>]}

InitLog ==
    /\ entry = "task"
    /\ processedFiles = <<>>
    /\ agents = <<>>
    /\ context = None
    /\ files = [k \in 1..MaxDocs |-> OriginalOf[k]]
    /\ tempStore = <<>>
    /\ now = 0
    /\ inflight = None
    /\ faultyCalls = 0
    /\ ioFaults = {}
    /\ pc = "console"
    /\ fileIdx = 0
    /\ enhancements = <<>>
    /\ errors = <<>>
    /\ agentStats = <<>>
    /\ summary = None
    /\ prPayload = None
    /\ publisherCalls = 0
    /\ returned = None
    /\ teamReturned = None
    /\ originalContent = None
    /\ currentContent = None
    /\ agentResults = <<>>
    /\ allImprovements = <<>>
    /\ contentEvolution = <<>>
    /\ agentIdx = 0
    /\ free = FALSE
    /\ tempFilePath = None
    /\ result = None
    /\ resultContent = None
    /\ started = <<>>
    /\ finishedCalls = 0
    /\ reads = <<>>
    /\ wrapperThrew = {}
    /\ ragScore = None
    /\ LogIdle
    /\ callLog = NoCalls
    /\ OuterIdle

logFrame == <<outerVars, callLog, inputVars, envVars, batchVars, docVars, wrapVars, obsVars, pc,
              ragScore>>

\* the run returns: what it hands back and the console it leaves
Returned(run, res, io) ==
    [k \in DOMAIN run \cup {"result", "after"} |->
        CASE k = "pc" -> "returned"
          [] k = "result" -> res
          [] k = "after" -> io.console
          [] OTHER -> run[k]]

\* execute from its entry to its first await, or to its return when the
\* input is refused: the first console.log, new RunLogger(), the
\* validations, the announcement of the agents
LogExecuteBegin(r, t, inp) ==
    /\ runs[r].pc = "idle"
    /\ r > 1 => runs[r - 1].pc # "idle"
    /\ LET greeted == Emit(IO, "log", "starting workflow")
           id == Len(loggers) + 1
           logging == NewRunLogger(greeted)
           run == [pc |-> "body", task |-> t, logger |-> id, input |-> inp,
                   before |-> console]
       IN  /\ runLogger' = [runLogger EXCEPT ![t] = id]
           /\ IF ValidInput(inp.ctx, inp.ags)
              THEN /\ Commit(Emit(logging, "log", "processing with agents"))
                   /\ runs' = [runs EXCEPT ![r] = run]
              ELSE LET io == Retire(Catch(logging, id, ErrorMessage(inp.ctx)), id)
                   IN  /\ Commit(io)
                       /\ runs' = [runs EXCEPT ![r] =
                                     Returned(run,
                                              [success |-> FALSE,
                                               error |-> ErrorMessage(inp.ctx)],
                                              io)]
    /\ UNCHANGED <<logFrame, emissions>>

\* the pipeline or one of its agents emits on the console
LogBodyEmit(r, m) ==
    /\ runs[r].pc = "body"
    /\ emissions < MaxEmissions
    /\ Commit(Emit(IO, m, "pipeline message"))
    /\ emissions' = emissions + 1
    /\ UNCHANGED <<logFrame, runLogger, runs>>

\* an exception outside the per-document and per-agent try blocks: the
\* catch block of execute runs and execute returns
LogFatal(r) ==
    /\ runs[r].pc = "body"
    /\ LET io == Retire(Catch(IO, runLogger[runs[r].task], "unexpected"),
                        runs[r].logger)
       IN  /\ Commit(io)
           /\ runs' = [runs EXCEPT ![r] =
                         Returned(@, [success |-> FALSE, error |-> "unexpected"],
                                  io)]
    /\ UNCHANGED <<logFrame, runLogger, emissions>>

\* the loop over the documents is over: the summary, the announcement of
\* the pull request, and the await of createGitHubPR
LogPublish(r) ==
    /\ runs[r].pc = "body"
    /\ Commit(Emit(IO, "log", "creating pull request"))
    /\ runs' = [runs EXCEPT ![r].pc = "publishing"]
    /\ UNCHANGED <<logFrame, runLogger, emissions>>

\* createGitHubPR has settled: this.runLogger.finalize(summary) and return
LogFinish(r) ==
    /\ runs[r].pc = "publishing"
    /\ LET io == Retire(finalize(IO, runLogger[runs[r].task], "summary"),
                        runs[r].logger)
       IN  /\ Commit(io)
           /\ runs' = [runs EXCEPT ![r] =
                         Returned(@, [success |-> TRUE], io)]
    /\ UNCHANGED <<logFrame, runLogger, emissions>>

\* code of the process that is no part of a batch emits on the console
OutsideEmit(m) ==
    /\ emissions < MaxEmissions
    /\ Commit(Emit(IO, m, "outside message"))
    /\ emissions' = emissions + 1
    /\ UNCHANGED <<logFrame, runLogger, runs>>

\* the task objects a call may be made on
TasksFor(r) == {1, r}

\* no other execute call is under way
Alone(r) == \A q \in 1..MaxRuns : q # r => runs[q].pc \in {"idle", "returned"}

\* execute calls that may overlap
ExecuteAnyTime == \E r \in 1..MaxRuns, inp \in LogInputs : \E t \in TasksFor(r) :
                     LogExecuteBegin(r, t, inp)
\* execute calls made one after the other on the task of the team
\* (this.tasks[0])
ExecuteInTurn == \E r \in 1..MaxRuns, inp \in LogInputs :
                    Alone(r) /\ LogExecuteBegin(r, 1, inp)
BodyEmits == \E r \in 1..MaxRuns, m \in Methods : LogBodyEmit(r, m)
Fatal == \E r \in 1..MaxRuns : LogFatal(r)
Publish == \E r \in 1..MaxRuns : LogPublish(r)
Finish == \E r \in 1..MaxRuns : LogFinish(r)
OutsideEmits == \E m \in Methods : OutsideEmit(m)

NextLog ==
    \/ ExecuteAnyTime
    \/ BodyEmits
    \/ Fatal
    \/ Publish
    \/ Finish
    \/ OutsideEmits

SpecLog == InitLog /\ [][NextLog]_vars

NextSerial ==
    \/ ExecuteInTurn
    \/ BodyEmits
    \/ Fatal
    \/ Publish
    \/ Finish
    \/ OutsideEmits

SpecSerial == InitLog /\ [][NextSerial]_vars

\* ------------------------------------------------------------ runRAGProcessing
\* What the target directory may hold at each path: a markdown file, a
\* markdown file that cannot be read or parsed, a backup copy (its name
\* contains '.backup'), a file that is not markdown, or nothing.
FileKinds == {"md", "unreadable", "backup", "other", "absent"}

\* the directory exists with some listing, does not exist yet, or cannot be
\* listed
Directories ==
    {[state |-> "missing"], [state |-> "unlistable"]}
    \cup {[state |-> "present", listing |-> l] :
             l \in [1..MaxDocs -> FileKinds]}

\* files.filter(file => file.endsWith('.md') && !file.includes('.backup'))
markdownFiles(listing) ==
    SelectSeq([k \in DOMAIN listing |-> k],
              LAMBDA k : listing[k] \in {"md", "unreadable"})

\* the DocumentInfo built for a file that was read and parsed
DocumentInfo(k) == [path |-> k, fullPath |-> k, title |-> k]

\* discoverDocuments: a directory that is missing is created and nothing is
\* found; a file whose read or parse throws is left out with a warning; an
\* error anywhere else yields the empty list
discoverDocuments(dir) ==
    IF dir.state # "present" THEN <<>>
    ELSE LET md == markdownFiles(dir.listing)
             readable == SelectSeq(md, LAMBDA k : dir.listing[k] = "md")
         IN  [j \in DOMAIN readable |-> DocumentInfo(readable[j])]

\* the result returned when nothing was discovered
NothingFound ==
    [filesProcessed |-> 0, enhancementsApplied |-> 0, ragScore |-> 0,
     agentResults |-> <<>>, summary |-> [message |-> "No documents found"]]

\* the ProcessingResult built from what processDocuments returned:
\* result?.successful || 0, result?.averageRagScore || 0,
\* result?.agentResults || []
ProcessingResultOf(pf, res) ==
    [filesProcessed |-> Len(pf),
     enhancementsApplied |-> OrElse(Field(res, "successful"), 0),
     ragScore |-> OrElse(Field(res, "averageRagScore"), 0),
     agentResults |->
        IF "agentResults" \in DOMAIN res THEN res.agentResults ELSE <<>>,
     summary |-> res]

\* the agents loadAllAgents returns: the ones whose module loaded, or the
\* mock agent when none did
LoadedAgents ==
    {<<"mock-agent">>} \cup {SubSeq(AgentNames, 1, n) : n \in 1..MaxAgents}

InitRun ==
    /\ entry = "team"
    /\ processedFiles = <<>>
    /\ agents = <<>>
    /\ context = None
    /\ files = [k \in 1..MaxDocs |-> OriginalOf[k]]
    /\ tempStore = <<>>
    /\ now = 0
    /\ inflight = None
    /\ faultyCalls = 0
    /\ ioFaults = {}
    /\ pc = "plugin"
    /\ fileIdx = 0
    /\ enhancements = <<>>
    /\ errors = <<>>
    /\ agentStats = <<>>
    /\ summary = None
    /\ prPayload = None
    /\ publisherCalls = 0
    /\ returned = None
    /\ teamReturned = None
    /\ originalContent = None
    /\ currentContent = None
    /\ agentResults = <<>>
    /\ allImprovements = <<>>
    /\ contentEvolution = <<>>
    /\ agentIdx = 0
    /\ free = FALSE
    /\ tempFilePath = None
    /\ result = None
    /\ resultContent = None
    /\ started = <<>>
    /\ finishedCalls = 0
    /\ reads = <<>>
    /\ wrapperThrew = {}
    /\ ragScore = None
    /\ LogIdle
    /\ callLog = NoCalls
    /\ \E dir \in Directories : rag = [pc |-> "discover", dir |-> dir]
    /\ naming = [pc |-> "idle"]
    /\ team = [pc |-> "idle"]
    /\ tool = [pc |-> "idle"]

runFrame == <<envVars, docVars, wrapVars, obsVars, ragScore, logVars, callLog,
              naming, team, tool, entry, context, fileIdx, enhancements, errors, agentStats,
              summary, prPayload, publisherCalls, returned, teamReturned>>

\* runRAGProcessing up to await documentTeam.initialize(): the documents are
\* discovered, and with none the function returns
RunDiscover ==
    /\ rag.pc = "discover"
    /\ LET found == discoverDocuments(rag.dir)
       IN  /\ processedFiles' = found
           /\ rag' = IF Len(found) = 0
                     THEN [pc |-> "done", dir |-> rag.dir, discovered |-> found,
                           result |-> NothingFound]
                     ELSE [pc |-> "initialize", dir |-> rag.dir,
                           discovered |-> found]
    /\ UNCHANGED <<runFrame, agents, pc>>

\* documentTeam.initialize(): the loaded agents are added to the team and
\* copied to the task; processDocuments is called next
RunInitialize ==
    /\ rag.pc = "initialize"
    /\ agents' \in LoadedAgents
    /\ rag' = [rag EXCEPT !.pc = "process"]
    /\ pc' = "start"
    /\ UNCHANGED <<runFrame, processedFiles>>

\* processDocuments has returned: the ProcessingResult is built and returned
RunReturn ==
    /\ rag.pc = "process" /\ pc = "teamDone"
    /\ rag' = [pc |-> "done", dir |-> rag.dir, discovered |-> rag.discovered,
               result |-> ProcessingResultOf(processedFiles, teamReturned)]
    /\ UNCHANGED <<runFrame, inputVars, pc>>

\* processDocuments always takes its early return here: no other action of
\* the batch is ever enabled
NextRun ==
    \/ RunDiscover
    \/ RunInitialize
    \/ ProcessDocumentsStart
    \/ RunReturn

SpecRun == InitRun /\ [][NextRun]_vars

\* the same with every action of the batch
SpecRunWhole == InitRun /\ [][NextRun \/ Next]_vars

\* ------------------------------------------------------------ temp file names
\* The characters of an agent's name: a lower-case letter, an upper-case
\* letter, a digit, and three that are none of these.
Alphanumeric == {"a", "Z", "7"}
NameChars == Alphanumeric \cup {" ", "-", "_"}

\* the names an agent may have
NamesOfAgents == UNION {[1..n -> NameChars] : n \in 1..MaxNameLen}

\* agent.name.replace(/[^a-z0-9]/gi, '-'): every character that is neither a
\* letter of either case nor a digit becomes '-'
SanitizeName(name) ==
    [i \in DOMAIN name |-> IF name[i] \in Alphanumeric THEN name[i] ELSE "-"]

\* `temp-${...}-${Date.now()}.md`
tempFileName(name, t) ==
    <<"temp-">> \o SanitizeName(name) \o <<"-", ToString(t), ".md">>

\* path.join(tempDir, tempFileName)
TempPathOf(name, t) == <<".temp-agent-processing">> \o tempFileName(name, t)

NotNamed == <<>>

\* two wrapper invocations, for one agent or for two agents, are about to
\* build their temp file names
InitNames ==
    /\ entry = "task"
    /\ processedFiles = <<>>
    /\ agents = <<>>
    /\ context = None
    /\ files = [k \in 1..MaxDocs |-> OriginalOf[k]]
    /\ tempStore = <<>>
    /\ now = 0
    /\ inflight = None
    /\ faultyCalls = 0
    /\ ioFaults = {}
    /\ pc = "names"
    /\ fileIdx = 0
    /\ enhancements = <<>>
    /\ errors = <<>>
    /\ agentStats = <<>>
    /\ summary = None
    /\ prPayload = None
    /\ publisherCalls = 0
    /\ returned = None
    /\ teamReturned = None
    /\ originalContent = None
    /\ currentContent = None
    /\ agentResults = <<>>
    /\ allImprovements = <<>>
    /\ contentEvolution = <<>>
    /\ agentIdx = 0
    /\ free = FALSE
    /\ tempFilePath = None
    /\ result = None
    /\ resultContent = None
    /\ started = <<>>
    /\ finishedCalls = 0
    /\ reads = <<>>
    /\ wrapperThrew = {}
    /\ ragScore = None
    /\ LogIdle
    /\ callLog = NoCalls
    /\ rag = [pc |-> "idle"]
    /\ team = [pc |-> "idle"]
    /\ tool = [pc |-> "idle"]
    /\ \E n1, n2 \in NamesOfAgents :
          naming = [pc |-> "naming", names |-> <<n1, n2>>,
                    paths |-> <<NotNamed, NotNamed>>]

namesFrame == <<inputVars, envVars, batchVars, docVars, wrapVars, obsVars, pc,
                ragScore, logVars, callLog, rag, team, tool>>

\* a millisecond passes
ClockTicks ==
    /\ naming.pc = "naming"
    /\ now < MaxClock
    /\ now' = now + 1
    /\ UNCHANGED <<naming, inputVars, files, tempStore, inflight, faultyCalls,
                   ioFaults, batchVars, docVars, wrapVars, obsVars, pc,
                   ragScore, logVars, callLog, rag, team, tool>>

\* invocation i builds its temp file path
BuildTempPath(i) ==
    /\ naming.pc = "naming"
    /\ naming.paths[i] = NotNamed
    /\ naming' = [naming EXCEPT !.paths[i] = TempPathOf(naming.names[i], now)]
    /\ UNCHANGED namesFrame

NextNames ==
    \/ ClockTicks
    \/ \E i \in 1..2 : BuildTempPath(i)

SpecNames == InitNames /\ [][NextNames]_vars

\* ------------------------------------------------------------ the team object
\* this.maxAgents = 6
maxAgents == 6

\* the agents a caller adds to or removes from the team
TeamNames == {AgentNames[i] : i \in 1..MaxTeamNames}

\* the lists a caller hands to addAgents
AgentLists == UNION {[1..n -> TeamNames] : n \in 0..2}

\* an addAgent that pushes whatever the size of the team
addAgentUnbounded(ags, agent) == [agents |-> Append(ags, agent), ret |-> TRUE]

\* addAgent(agent): the list afterwards and the value returned
addAgent(ags, agent) ==
    IF Len(ags) >= maxAgents
    THEN [agents |-> ags, ret |-> FALSE]
    ELSE [agents |-> Append(ags, agent), ret |-> TRUE]

\* addAgents(agents): forEach of addAgent, collecting the names added
RECURSIVE addAgents(_, _)
addAgents(ags, list) ==
    IF list = <<>>
    THEN [agents |-> ags, ret |-> <<>>]
    ELSE LET one == addAgent(ags, Head(list))
             rest == addAgents(one.agents, Tail(list))
         IN  [agents |-> rest.agents,
              ret |-> IF one.ret THEN <<Head(list)>> \o rest.ret ELSE rest.ret]

\* this.agents.findIndex(agent => agent.name === agentName), 0 for -1
findIndex(ags, agentName) ==
    IF \E i \in DOMAIN ags : ags[i] = agentName
    THEN CHOOSE i \in DOMAIN ags :
            /\ ags[i] = agentName
            /\ \A j \in 1..(i - 1) : ags[j] # agentName
    ELSE 0

\* removeAgent(agentName): splice(index, 1) of the first agent of that name
removeAgent(ags, agentName) ==
    LET index == findIndex(ags, agentName)
    IN  IF index > 0
        THEN [agents |-> SubSeq(ags, 1, index - 1)
                            \o SubSeq(ags, index + 1, Len(ags)),
              ret |-> TRUE]
        ELSE [agents |-> ags, ret |-> FALSE]

\* initialize() with the agents loadAllAgents returned: both lists are
\* cleared, the agents are added one by one, and the task gets a copy of the
\* team's list
initialize(loaded) ==
    LET added == addAgents(<<>>, loaded).agents
    IN  [agents |-> added, tasks |-> <<[agents |-> added]>>]

\* what a call on the team returned
CallReturned(op, arg, ret) == [op |-> op, arg |-> arg, ret |-> ret]
NothingReturned == [op |-> "none"]

\* new DocumentProcessingTeam(); the environment of the batch behaves
InitTeam ==
    /\ entry = "team"
    /\ processedFiles = <<>>
    /\ agents = <<>>
    /\ context = None
    /\ files = [k \in 1..MaxDocs |-> OriginalOf[k]]
    /\ tempStore = <<>>
    /\ now = 0
    /\ inflight = None
    /\ faultyCalls = MaxFaultyCalls
    /\ ioFaults = {}
    /\ pc = "team"
    /\ fileIdx = 0
    /\ enhancements = <<>>
    /\ errors = <<>>
    /\ agentStats = <<>>
    /\ summary = None
    /\ prPayload = None
    /\ publisherCalls = 0
    /\ returned = None
    /\ teamReturned = None
    /\ originalContent = None
    /\ currentContent = None
    /\ agentResults = <<>>
    /\ allImprovements = <<>>
    /\ contentEvolution = <<>>
    /\ agentIdx = 0
    /\ free = FALSE
    /\ tempFilePath = None
    /\ result = None
    /\ resultContent = None
    /\ started = <<>>
    /\ finishedCalls = 0
    /\ reads = <<>>
    /\ wrapperThrew = {}
    /\ ragScore = None
    /\ LogIdle
    /\ callLog = NoCalls
    /\ rag = [pc |-> "idle"]
    /\ naming = [pc |-> "idle"]
    /\ tool = [pc |-> "idle"]
    /\ team = [pc |-> "ready", agents |-> <<>>, tasks |-> <<>>,
               last |-> NothingReturned]

teamFrame == <<rag, naming, tool, inputVars, envVars, batchVars, docVars, wrapVars,
               obsVars, pc, ragScore, logVars, callLog>>

TeamAddAgent ==
    /\ team.pc = "ready"
    /\ \E a \in TeamNames :
          LET r == addAgent(team.agents, a)
          IN  team' = [team EXCEPT !.agents = r.agents,
                                   !.last = CallReturned("addAgent", a, r.ret)]
    /\ UNCHANGED teamFrame

TeamAddAgents ==
    /\ team.pc = "ready"
    /\ \E list \in AgentLists :
          LET r == addAgents(team.agents, list)
          IN  team' = [team EXCEPT !.agents = r.agents,
                                   !.last = CallReturned("addAgents", list, r.ret)]
    /\ UNCHANGED teamFrame

TeamRemoveAgent ==
    /\ team.pc = "ready"
    /\ \E a \in TeamNames \cup {"mock-agent"} :
          LET r == removeAgent(team.agents, a)
          IN  team' = [team EXCEPT !.agents = r.agents,
                                   !.last = CallReturned("removeAgent", a, r.ret)]
    /\ UNCHANGED teamFrame

TeamInitialize ==
    /\ team.pc = "ready"
    /\ \E loaded \in LoadedAgents :
          LET r == initialize(loaded)
          IN  team' = [team EXCEPT !.agents = r.agents, !.tasks = r.tasks,
                                   !.last = CallReturned("initialize", loaded, TRUE)]
    /\ UNCHANGED teamFrame

\* reset()
TeamReset ==
    /\ team.pc = "ready"
    /\ team' = [team EXCEPT !.agents = <<>>, !.tasks = <<>>,
                            !.last = NothingReturned]
    /\ UNCHANGED teamFrame

\* processDocuments(processedFiles) of this team with a document that needs
\* enhancement, up to its await of enhanceTask.execute(context): the team is
\* initialized again if it has no agent or no task, and the task that runs is
\* this.tasks[0] with the agents it was given
TeamProcessDocuments ==
    /\ team.pc = "ready" /\ pc = "team"
    /\ \E loaded \in LoadedAgents :
          LET r == IF Len(team.agents) = 0 \/ Len(team.tasks) = 0
                   THEN initialize(loaded)
                   ELSE [agents |-> team.agents, tasks |-> team.tasks]
              pf == <<Doc(1, TRUE)>>
          IN  /\ team' = [pc |-> "batch", agents |-> r.agents,
                          tasks |-> r.tasks, last |-> NothingReturned]
              /\ processedFiles' = pf
              /\ agents' = r.tasks[1].agents
              /\ context' = [processedFiles |-> filesToEnhance(pf),
                             teamName |-> "DocumentProcessingTeam",
                             agentCount |-> Len(r.agents)]
    /\ pc' = "execute"
    /\ UNCHANGED <<rag, naming, tool, entry, envVars, docVars, wrapVars, obsVars,
                   ragScore, logVars, callLog, fileIdx, enhancements, errors,
                   agentStats, summary, prPayload, publisherCalls, returned,
                   teamReturned>>

\* the calls on the team, and the batch when every call of it behaves
NextTeam ==
    \/ TeamAddAgent
    \/ TeamAddAgents
    \/ TeamRemoveAgent
    \/ TeamInitialize
    \/ TeamReset
    \/ TeamProcessDocuments
    \/ ExecuteBegin
    \/ ReadOriginal
    \/ StartWrapper
    \/ WriteTemp
    \/ AgentSettlesPrimary
    \/ ReadBack
    \/ RemoveTemp
    \/ FinishDocument
    \/ Summarize
    \/ PublisherSettles
    \/ ProcessDocumentsFinish

SpecTeam == InitTeam /\ [][NextTeam]_vars

\* ------------------------------------------------------------ the GitHub tool
\* the proposed enhancements createGitHubPR hands to the tool: one per
\* enhanced document, whose final content may be the empty string
ProposedLists ==
    UNION {{[k \in 1..n |-> [filePath |-> k, relativePath |-> k,
                             enhancedContent |-> cs[k]]] :
               cs \in [1..n -> {"", "enhanced"}]} : n \in 0..MaxDocs}

\* a tool that commits every proposed enhancement
carriesAnything(enhancement) == TRUE

\* if (enhancement.enhancedContent)
carriesContent(enhancement) == Truthy(enhancement.enhancedContent)

\* the request the tool waits for next when the for-of loop is at position
\* i: the first request of commitProposedEnhancement for the next
\* enhancement that carries content, or pulls.create after the loop (the
\* title and generatePRDescription are strings built from the arguments
\* createGitHubPR hands over and send no request)
RECURSIVE LoopFrom(_, _)
LoopFrom(proposed, i) ==
    IF i > Len(proposed)
    THEN [pc |-> "pulls.create", idx |-> i]
    ELSE IF carriesContent(proposed[i])
         THEN [pc |-> "repos.getContent", idx |-> i]
         ELSE LoopFrom(proposed, i + 1)

\* a request sent to GitHub and how it settled
Request(api, idx, ok) == [api |-> api, idx |-> idx, ok |-> ok]

\* the catch block of createEnhancementPR
ToolFailed == [success |-> FALSE, error |-> "error.message"]

\* createEnhancementPR(proposedEnhancements, summary) is called and sends
\* its first request
InitTool ==
    /\ entry = "team"
    /\ processedFiles = <<>>
    /\ agents = <<>>
    /\ context = None
    /\ files = [k \in 1..MaxDocs |-> OriginalOf[k]]
    /\ tempStore = <<>>
    /\ now = 0
    /\ inflight = None
    /\ faultyCalls = 0
    /\ ioFaults = {}
    /\ pc = "tool"
    /\ fileIdx = 0
    /\ enhancements = <<>>
    /\ errors = <<>>
    /\ agentStats = <<>>
    /\ summary = None
    /\ prPayload = None
    /\ publisherCalls = 0
    /\ returned = None
    /\ teamReturned = None
    /\ originalContent = None
    /\ currentContent = None
    /\ agentResults = <<>>
    /\ allImprovements = <<>>
    /\ contentEvolution = <<>>
    /\ agentIdx = 0
    /\ free = FALSE
    /\ tempFilePath = None
    /\ result = None
    /\ resultContent = None
    /\ started = <<>>
    /\ finishedCalls = 0
    /\ reads = <<>>
    /\ wrapperThrew = {}
    /\ ragScore = None
    /\ LogIdle
    /\ callLog = NoCalls
    /\ rag = [pc |-> "idle"]
    /\ naming = [pc |-> "idle"]
    /\ team = [pc |-> "idle"]
    /\ \E proposed \in ProposedLists :
          tool = [pc |-> "repos.get", proposed |-> proposed, idx |-> 0,
                  requests |-> <<>>, returned |-> None]

toolFrame == <<rag, naming, team, inputVars, envVars, batchVars, docVars,
               wrapVars, obsVars, pc, ragScore, logVars, callLog>>

\* a request made before the loop has settled: the next request is sent, or
\* the rejection is caught by the catch block of createEnhancementPR
SettleSetup(api, ok, next) ==
    IF ok
    THEN [tool EXCEPT !.pc = next.pc, !.idx = next.idx,
                      !.requests = Append(@, Request(api, 0, TRUE))]
    ELSE [tool EXCEPT !.pc = "done", !.returned = ToolFailed,
                      !.requests = Append(@, Request(api, 0, FALSE))]

\* await this.octokit.rest.repos.get(...)
ToolReposGet ==
    /\ tool.pc = "repos.get"
    /\ \E ok \in BOOLEAN :
          tool' = SettleSetup("repos.get", ok, [pc |-> "git.getRef", idx |-> 0])
    /\ UNCHANGED toolFrame

\* await this.octokit.rest.git.getRef(...)
ToolGetRef ==
    /\ tool.pc = "git.getRef"
    /\ \E ok \in BOOLEAN :
          tool' = SettleSetup("git.getRef", ok,
                              [pc |-> "git.createRef", idx |-> 0])
    /\ UNCHANGED toolFrame

\* await this.octokit.rest.git.createRef(...), then the loop head
ToolCreateRef ==
    /\ tool.pc = "git.createRef"
    /\ \E ok \in BOOLEAN :
          tool' = SettleSetup("git.createRef", ok, LoopFrom(tool.proposed, 1))
    /\ UNCHANGED toolFrame

\* commitProposedEnhancement: repos.getContent settles; its rejection is
\* caught by the inner catch and the file is committed as a new file
ToolGetContent ==
    /\ tool.pc = "repos.getContent"
    /\ \E ok \in BOOLEAN :
          tool' = [tool EXCEPT !.pc = "repos.createOrUpdateFileContents",
                               !.requests = Append(@, Request("repos.getContent",
                                                              tool.idx, ok))]
    /\ UNCHANGED toolFrame

\* commitProposedEnhancement: repos.createOrUpdateFileContents settles; its
\* rejection is caught by the catch of commitProposedEnhancement, and the
\* loop of createEnhancementPR goes on
ToolCreateOrUpdate ==
    /\ tool.pc = "repos.createOrUpdateFileContents"
    /\ \E ok \in BOOLEAN :
          LET next == LoopFrom(tool.proposed, tool.idx + 1)
          IN  tool' = [tool EXCEPT
                          !.pc = next.pc, !.idx = next.idx,
                          !.requests = Append(@,
                              Request("repos.createOrUpdateFileContents",
                                      tool.idx, ok))]
    /\ UNCHANGED toolFrame

\* await this.octokit.rest.pulls.create(...) settles and the tool returns
ToolPullsCreate ==
    /\ tool.pc = "pulls.create"
    /\ \E ok \in BOOLEAN :
          tool' = [tool EXCEPT
                      !.pc = "done",
                      !.requests = Append(@, Request("pulls.create", 0, ok)),
                      !.returned = IF ok
                                   THEN [success |-> TRUE, prNumber |-> "number",
                                         prUrl |-> "html_url",
                                         branch |-> "rag-enhancements"]
                                   ELSE ToolFailed]
    /\ UNCHANGED toolFrame

NextTool ==
    \/ ToolReposGet
    \/ ToolGetRef
    \/ ToolCreateRef
    \/ ToolGetContent
    \/ ToolCreateOrUpdate
    \/ ToolPullsCreate

SpecTool == InitTool /\ [][NextTool]_vars

\* ------------------------------------------------------------ properties
Range(f) == {f[i] : i \in DOMAIN f}

\* the batch's documents are known once execute holds a context with a list
HasFiles == context # None /\ "processedFiles" \in DOMAIN context

\* the wrapper call made for agent k on the d-th document of the batch
StartedAt(d, k) == {c \in Range(started) : c.doc = d /\ c.agent = k}

\* the enhancement emitted for the d-th document of the batch
EnhancementsOf(d) ==
    {e \in Range(enhancements) : e.filePath = fullPath(ctxFiles[d])}

\* the agent results of the d-th document, while it is processed and after
ResultsOf(d) ==
    IF d = fileIdx /\ pc \notin {"read", "summary"} THEN {agentResults}
    ELSE {e.agentResults : e \in EnhancementsOf(d)}

BatchOver == pc \in {"summary", "publishing", "returned", "teamDone"}

\* C1 (as claimed): the authoritative file of every document holds, at every
\* point of the orchestration, the content it held before: orchestration
\* never causes a write to it.
C1_AuthoritativeFileNeverWritten ==
    /\ \A d \in DOMAIN files : files[d] = OriginalOf[d]
    /\ \A e \in Range(enhancements) : files[e.filePath] = e.originalContent

\* C2 (as claimed): the handle of every analyzeContent call made by
\* runAgentSafely, primary or fallback, is not the authoritative file path.
C2_HandleNeverAuthoritative ==
    inflight # None => inflight.handle.kind # "file"

\* C3: every emitted Document Enhancement holds exactly one Agent Invocation
\* Result per configured agent: agentResults has the length of the agent
\* list, and its k-th entry carries the k-th agent's name and position k,
\* whichever agents failed; while a document is processed, one result is
\* recorded per agent that has finished.
C3_OneResultPerAgent ==
    /\ \A e \in Range(enhancements) :
          /\ Len(e.agentResults) = Len(agents)
          /\ \A k \in 1..Len(e.agentResults) :
                /\ e.agentResults[k].agentName = agents[k]
                /\ e.agentResults[k].sequencePosition = k
    /\ pc = "agent" => Len(agentResults) = agentIdx - 1

\* C3 witness: a document was emitted whose pipeline had a failed agent and
\* a successful one
C3_Witness ==
    \E e \in Range(enhancements) :
       /\ \E k \in 1..Len(e.agentResults) : e.agentResults[k].result = Null
       /\ \E k \in 1..Len(e.agentResults) : e.agentResults[k].result # Null

\* C4: when the wrapper throws for agent k on document d, the failure is
\* recorded as a result with an error and a null payload, agent k+1 is
\* invoked with exactly the content agent k was given, and the document ends
\* up in the enhancements list and not in the errors list.
C4_FailureDoesNotAbort ==
    \A t \in wrapperThrew :
       LET d == t[1]
           k == t[2]
       IN  /\ \A rs \in ResultsOf(d) :
                /\ Len(rs) >= k
                /\ rs[k].result = Null
                /\ "error" \in DOMAIN rs[k]
           /\ \A c1 \in StartedAt(d, k) : \A c2 \in StartedAt(d, k + 1) :
                c2.content = c1.content
           /\ (k < Len(agents) /\ (d < fileIdx \/ BatchOver))
                 => StartedAt(d, k + 1) # {}
           /\ (d < fileIdx \/ BatchOver)
                 => /\ EnhancementsOf(d) # {}
                    /\ \A x \in Range(errors) : x.file # ctxFiles[d].title
           /\ pc \in {"returned", "teamDone"}
                 => /\ returned.success
                    /\ \E e \in Range(returned.enhancements) :
                          e.filePath = fullPath(ctxFiles[d])
                    /\ \A x \in Range(returned.errors) :
                          x.file # ctxFiles[d].title

\* C4 witness: the batch returned, and in it a wrapper call threw for an
\* agent that is not the last one
C4_Witness ==
    /\ pc \in {"returned", "teamDone"}
    /\ \E t \in wrapperThrew : t[2] < Len(agents)

\* C5: wrapper calls happen one at a time and in order: a call begins only
\* when every earlier call has returned or thrown; within a document the
\* agents are started in list order, each right after its predecessor; a
\* call on the next document begins only after the last agent of the
\* current one; documents are read in input order.
C5_StrictlySequential ==
    /\ Len(started) \in {finishedCalls, finishedCalls + 1}
    /\ inflight # None => Len(started) = finishedCalls + 1
    /\ \A j \in 1..Len(started) :
          IF j = 1 \/ started[j].agent # 1
          THEN /\ started[j].agent = (IF j = 1 THEN 1 ELSE started[j - 1].agent + 1)
               /\ j > 1 => started[j].doc = started[j - 1].doc
          ELSE /\ started[j - 1].agent = Len(agents)
               /\ started[j].doc > started[j - 1].doc
    /\ \A j \in 1..Len(reads) :
          /\ HasFiles
          /\ reads[j] = fullPath(ctxFiles[j])

\* C5 witness: two documents went through two agents each
C5_Witness ==
    /\ Len(started) >= 4
    /\ started[Len(started)].doc = 2
    /\ BatchOver

\* the documents whose pipeline has begun: the one in progress and the
\* emitted ones, each with its results and its snapshot sequence so far
InPipeline ==
    pc \in {"agent", "writeTemp", "agentRun", "readBack", "removeTemp",
            "cleanup", "fallbackRun"}

\* the position in the batch of the document at a path
DocAt(path) == CHOOSE d \in DOMAIN ctxFiles : fullPath(ctxFiles[d]) = path

EmittedViews ==
    {[doc |-> DocAt(e.filePath), rs |-> e.agentResults,
      ev |-> e.contentEvolution, orig |-> e.originalContent] :
        e \in Range(enhancements)}

PipelineViews ==
    EmittedViews
    \cup (IF InPipeline
          THEN {[doc |-> fileIdx, rs |-> agentResults,
                 ev |-> contentEvolution, orig |-> originalContent]}
          ELSE {})

\* the content agent k of document d was given
GivenTo(d, k) == (CHOOSE c \in StartedAt(d, k) : TRUE).content

\* the contents the agents of document d were given, by agent position
Given(d) ==
    LET calls == {c \in Range(started) : c.doc = d}
    IN  [k \in {c.agent : c \in calls} |->
            (CHOOSE c \in calls : c.agent = k).content]

\* the content a successful result proposes: its content when that is
\* non-empty and differs from the content given, else its restructuredContent
\* under the same condition, else nothing new
Proposed(res, given) ==
    IF res.content # "" /\ res.content # given THEN res.content
    ELSE IF /\ "restructuredContent" \in DOMAIN res
            /\ res.restructuredContent # ""
            /\ res.restructuredContent # given
         THEN res.restructuredContent
         ELSE given

\* the result's content, or restructuredContent, differs from the content
\* given, empty or not
Differs(res, given) ==
    \/ res.content # given
    \/ /\ "restructuredContent" \in DOMAIN res
       /\ res.restructuredContent # given

Before(S, k) == Cardinality({c \in S : c < k})

\* C6 (amended): the snapshot sequence starts with the single entry
\* 'original' and gains one entry, at its end, exactly when a successful
\* agent returns a non-empty content (or restructuredContent) that differs
\* from the content it received; the stages after 'original' are those
\* agents in pipeline order, and each agent receives the content of the last
\* entry present when it is invoked.
C6_SnapshotSequence ==
    \A v \in PipelineViews :
       LET given == Given(v.doc)
           changers == {k \in 1..Len(v.rs) :
                          /\ v.rs[k].result # Null
                          /\ Proposed(v.rs[k].result, given[k]) # given[k]}
       IN  /\ Len(v.ev) = 1 + Cardinality(changers)
           /\ v.ev[1] = [stage |-> "original", content |-> v.orig]
           /\ \A k \in changers :
                 v.ev[1 + Before(changers, k) + 1] =
                    [stage |-> agents[k],
                     content |-> Proposed(v.rs[k].result, given[k])]
           /\ \A k \in DOMAIN given :
                 given[k] = v.ev[1 + Before(changers, k)].content

\* C6 witness: agents [A, B, C], only B changed the content: the entries are
\* original and B, and C was given B's output
C6_Witness ==
    /\ Len(agents) = 3
    /\ \E e \in Range(enhancements) :
          /\ Len(e.contentEvolution) = 2
          /\ e.contentEvolution[2].stage = "B"
          /\ e.contentEvolution[2].content # e.originalContent
          /\ StartedAt(1, 3) # {}
          /\ GivenTo(1, 3) = e.contentEvolution[2].content
          /\ GivenTo(1, 2) = e.originalContent

\* C6 (as claimed): an entry is gained exactly when a successful agent's
\* returned content differs from the content it received.
C6_EntryOnEveryDifference ==
    \A v \in PipelineViews :
       LET given == Given(v.doc)
       IN  Len(v.ev) =
              1 + Cardinality({k \in 1..Len(v.rs) :
                                  /\ v.rs[k].result # Null
                                  /\ Differs(v.rs[k].result, given[k])})

\* ------------------------------------------------------------ score properties
\* the first of the four recognised scores that is a non-zero number, else
\* the default
FirstNonZero(m) ==
    CASE "ragScore" \in DOMAIN m /\ m.ragScore # 0 -> m.ragScore
      [] "chunkingScore" \in DOMAIN m /\ m.chunkingScore # 0 -> m.chunkingScore
      [] "validationScore" \in DOMAIN m /\ m.validationScore # 0 -> m.validationScore
      [] "seoScore" \in DOMAIN m /\ m.seoScore # 0 -> m.seoScore
      [] OTHER -> 75

\* the first of the four recognised scores that is present, else the default
FirstPresent(m) ==
    CASE "ragScore" \in DOMAIN m -> m.ragScore
      [] "chunkingScore" \in DOMAIN m -> m.chunkingScore
      [] "validationScore" \in DOMAIN m -> m.validationScore
      [] "seoScore" \in DOMAIN m -> m.seoScore
      [] OTHER -> 75

MetadataOf(r) ==
    IF "enhancedMetadata" \in DOMAIN r.result THEN r.result.enhancedMetadata
    ELSE [none |-> 0]

RECURSIVE SumOver(_, _)
SumOver(S, f) ==
    IF S = {} THEN 0
    ELSE LET k == CHOOSE x \in S : TRUE
         IN  f[k] + SumOver(S \ {k}, f)

\* r is the average of f over S, rounded to the nearest integer
IsRoundedAverage(r, S, f) ==
    LET sum == SumOver(S, f)
        cnt == Cardinality(S)
    IN  /\ 2 * r * cnt <= 2 * sum + cnt
        /\ 2 * sum + cnt < 2 * (r + 1) * cnt

\* the results that count: successful, with metadata, and a positive score
Counted(rs) ==
    {k \in 1..Len(rs) :
        /\ rs[k].result # Null
        /\ "enhancedMetadata" \in DOMAIN rs[k].result
        /\ FirstNonZero(rs[k].result.enhancedMetadata) > 0}

Succeeded(rs) == {k \in 1..Len(rs) : rs[k].result # Null}

\* C7 (amended): calculateConsolidatedRAGScore returns the average, rounded
\* to the nearest integer, of one score per successful agent result that
\* carries enhancedMetadata, that score being the first non-zero one of
\* ragScore, chunkingScore, validationScore, seoScore (in this order) or 75
\* when it has none, and a score that is not positive being left out; it
\* returns exactly 75 when no score is left (including when every agent
\* failed), and scores 80 and 60 give 70.
C7_ConsolidatedScore ==
    pc = "scored" =>
       /\ IF Counted(agentResults) = {} THEN ragScore = 75
          ELSE IsRoundedAverage(ragScore, Counted(agentResults),
                                [k \in Counted(agentResults) |->
                                    FirstNonZero(MetadataOf(agentResults[k]))])
       /\ (/\ Len(agentResults) = 2
           /\ Counted(agentResults) = {1, 2}
           /\ FirstNonZero(agentResults[1].result.enhancedMetadata) = 80
           /\ FirstNonZero(agentResults[2].result.enhancedMetadata) = 60)
             => ragScore = 70

\* C7 witness: a result without metadata and a result whose ragScore is 0
\* and whose validationScore is negative were scored: nothing counted
C7_Witness ==
    /\ pc = "scored"
    /\ Len(agentResults) = 2
    /\ Succeeded(agentResults) = {1, 2}
    /\ "enhancedMetadata" \notin DOMAIN agentResults[1].result
    /\ "enhancedMetadata" \in DOMAIN agentResults[2].result
    /\ DOMAIN agentResults[2].result.enhancedMetadata =
          {"ragScore", "validationScore"}
    /\ agentResults[2].result.enhancedMetadata.ragScore = 0
    /\ ragScore = 75

\* C7 (as claimed): the average, rounded, of one score per successful agent
\* result, that score being the first present of the four or 75 when the
\* result has none of them; 75 when no agent succeeded.
C7_FirstPresentPerSuccess ==
    pc = "scored" =>
       IF Succeeded(agentResults) = {} THEN ragScore = 75
       ELSE IsRoundedAverage(ragScore, Succeeded(agentResults),
                             [k \in Succeeded(agentResults) |->
                                 FirstPresent(MetadataOf(agentResults[k]))])

\* C8 (as claimed): the consolidated score of every emitted Document
\* Enhancement is an integer between 0 and 100 inclusive.
C8_ScoreWithinRange ==
    \A e \in Range(enhancements) : e.ragScore \in 0..100

\* ------------------------------------------------------------ batch properties
\* the failed count of a summary: its failed field, or its errors count when
\* it has none (the summary of a batch in which no document needs work)
FailedCount(sum) == IF "failed" \in DOMAIN sum THEN sum.failed ELSE sum.errors

ExecuteSucceeded == pc \in {"returned", "teamDone"} /\ returned # None /\ returned.success

\* C9 (amended): in the summary returned by execute, successful plus failed
\* equals the number of documents handed to execute, which is its
\* totalFiles; in the summary returned by processDocuments, whose totalFiles
\* is the number of documents it was given, successful plus failed plus
\* skipped equals totalFiles: the documents that need no enhancement are
\* counted as skipped, neither as successful nor as failed.
C9_CountsAddUp ==
    /\ ExecuteSucceeded =>
          /\ returned.summary.successful + returned.summary.failed
                = Len(ctxFiles)
          /\ returned.summary.totalFiles = Len(ctxFiles)
          /\ returned.summary.successful = Len(returned.enhancements)
          /\ returned.summary.failed = Len(returned.errors)
    /\ (pc = "teamDone" /\ teamReturned.success) =>
          LET sum == teamReturned.summary
          IN  /\ sum.totalFiles = Len(processedFiles)
              /\ sum.successful + FailedCount(sum) + sum.skipped
                    = sum.totalFiles
              /\ sum.skipped =
                    Cardinality({k \in DOMAIN processedFiles :
                                    ~processedFiles[k].needsEnhancement})

\* C9 witness: the team returned for a batch with a skipped document and a
\* document that went through the task
C9_Witness ==
    /\ pc = "teamDone"
    /\ teamReturned.success
    /\ teamReturned.summary.skipped = 1
    /\ teamReturned.summary.successful + FailedCount(teamReturned.summary) = 1

\* C9 (as claimed): in both summaries successful plus failed equals the
\* number of documents handed to the batch.
C9_SuccessfulPlusFailedIsAll ==
    /\ ExecuteSucceeded =>
          returned.summary.successful + returned.summary.failed
             = Len(ctxFiles)
    /\ (pc = "teamDone" /\ teamReturned.success) =>
          /\ teamReturned.summary.totalFiles = Len(processedFiles)
          /\ teamReturned.summary.successful
                + FailedCount(teamReturned.summary)
                = Len(processedFiles)

\* execute was called with no list, an empty list, or no agent
BadInput ==
    /\ context # None
    /\ \/ "processedFiles" \notin DOMAIN context
       \/ context.processedFiles = <<>>
       \/ agents = <<>>

\* C10: execute called with an empty or missing document list, or with an
\* empty agent list, reports a configuration failure and processes nothing:
\* no document is read, no agent is invoked, no Agent Statistics entry is
\* created, and the publisher is not called.
C10_BadInputProcessesNothing ==
    BadInput =>
       /\ pc \in {"execute", "returned"}
       /\ reads = <<>>
       /\ started = <<>>
       /\ inflight = None
       /\ agentStats = <<>>
       /\ publisherCalls = 0
       /\ prPayload = None
       /\ pc = "returned" =>
             /\ returned.success = FALSE
             /\ "error" \in DOMAIN returned

\* C10 witness: execute returned its failure for a document list with no
\* agent to process it
C10_Witness ==
    /\ pc = "returned"
    /\ agents = <<>>
    /\ HasFiles /\ Len(ctxFiles) = 1
    /\ returned.success = FALSE
    /\ returned.error = "No agents available for processing"

\* ------------------------------------------------------------ run record properties
\* the execute calls that have returned
ReturnedRuns == {r \in 1..MaxRuns : runs[r].pc = "returned"}

\* the execute calls that were handed an empty document list
EmptyListRuns ==
    {r \in ReturnedRuns : /\ "processedFiles" \in DOMAIN runs[r].input.ctx
                          /\ runs[r].input.ctx.processedFiles = <<>>}

\* the record holds the initialization entry of its logger and nothing else
OnlyInitialized(rec) ==
    /\ Len(rec) = 1
    /\ rec[1].level = "INFO"
    /\ rec[1].message = "capturing console output"

FailedDocs ==
    IF HasFiles
    THEN {d \in DOMAIN ctxFiles :
             \E x \in Range(errors) : x.file = ctxFiles[d].title}
    ELSE {}

\* every document whose read failed is in the batch errors and has no
\* enhancement; the documents are read in input order, none skipped
C12_State ==
    /\ \A x \in Range(errors) :
          /\ "error" \in DOMAIN x
          /\ \E d \in FailedDocs : x.file = ctxFiles[d].title
    /\ \A d \in FailedDocs :
          /\ EnhancementsOf(d) = {}
          /\ \A c \in Range(started) : c.doc # d
          /\ d <= Len(reads)
          /\ (d < Len(ctxFiles) /\ ~(pc = "read" /\ fileIdx = d + 1))
                => /\ Len(reads) > d
                   /\ reads[d + 1] = fullPath(ctxFiles[d + 1])
    /\ (BatchOver /\ reads # <<>>) => Len(reads) = Len(ctxFiles)

\* a failed read adds one error entry and moves on to the next document
C12_Step ==
    errors' # errors =>
       /\ Len(errors') = Len(errors) + 1
       /\ errors'[Len(errors')].file = ctxFiles[fileIdx].title
       /\ reads'[Len(reads')] = fullPath(ctxFiles[fileIdx])
       /\ agentStats' = agentStats
       /\ started' = started
       /\ enhancements' = enhancements
       /\ fileIdx' = fileIdx + 1
       /\ pc' = IF fileIdx < Len(ctxFiles) THEN "read" ELSE "summary"

\* C12: if reading a document's authoritative content fails, the document is
\* added to the batch errors with its identifier and the reason, it is
\* absent from the enhancements list, no agent is invoked on it, the step
\* that records it changes no Agent Statistics counter, and the batch goes
\* on to read the next document.
C12_ReadFailureIsLocal == []C12_State /\ [][C12_Step]_vars

\* C12 witness: the first document could not be read and the second one was
\* processed and emitted
C12_Witness ==
    /\ BatchOver
    /\ 1 \in FailedDocs
    /\ EnhancementsOf(2) # {}
    /\ started # <<>>

\* ------------------------------------------------------------ publisher properties
\* C13: whatever way the publisher settles (a pull request, a reported
\* failure, an exception), the step leaves the enhancements list, the errors
\* list and the Agent Statistics as they were computed before the publisher
\* was called, execute returns them with success, and the publisher's
\* outcome appears under the summary's githubPR field only: the rest of the
\* returned summary is the summary computed before the call.
C13_PublisherOutcomeIsolated ==
    [][pc = "publishing" =>
          /\ pc' = "returned"
          /\ enhancements' = enhancements
          /\ errors' = errors
          /\ agentStats' = agentStats
          /\ returned'.success = TRUE
          /\ DOMAIN returned' = {"success", "summary", "enhancements",
                                 "errors", "agentStatistics"}
          /\ returned'.enhancements = enhancements
          /\ returned'.errors = errors
          /\ returned'.agentStatistics = agentStats
          /\ DOMAIN returned'.summary = DOMAIN summary \cup {"githubPR"}
          /\ \A k \in DOMAIN summary : returned'.summary[k] = summary[k]
          /\ returned'.summary.githubPR \in PRResults(agents)]_vars

\* C13 witness: the publisher failed for a batch with an enhancement and an
\* error, and execute returned
C13_Witness ==
    /\ pc = "returned"
    /\ returned.success
    /\ returned.summary.githubPR.status = "failed"
    /\ returned.enhancements # <<>>
    /\ returned.errors # <<>>

\* ------------------------------------------------------------ interception properties
\* the level under which an emission is to be recorded
LevelName(m) ==
    CASE m = "log" -> "INFO" [] m = "warn" -> "WARN" [] m = "error" -> "ERROR"

\* the entries of a record that come from emissions
EmissionEntries(rec) ==
    SelectSeq(rec, LAMBDA e : e.level \notin {"FATAL", "CLOSING"})

\* C14 (as claimed): every emission made during a run, at any level (log,
\* warn, error), is appended to the Run Record of that run with its
\* timestamp and its level, and is also delivered to the console.
C14_EveryEmissionRecorded ==
    \A id \in DOMAIN loggers :
       LET es == EmissionEntries(runRecords[id])
       IN  /\ Len(es) = Len(owed[id])
           /\ \A k \in 1..Len(es) :
                 /\ es[k].message = owed[id][k].message
                 /\ es[k].level = LevelName(owed[id][k].method)
                 /\ "timestamp" \in DOMAIN es[k]
           /\ \A k \in 1..Len(owed[id]) :
                 \E j \in 1..Len(delivered) : delivered[j] = owed[id][k]

\* C15 (as claimed): after execute returns, on success and on every failure
\* path, console.log and console.error are the functions they were before
\* that call, whether the calls are consecutive or overlap; and at most one
\* logger intercepts at any time: a capturing closure held by the console
\* hands over to a function that captures nothing.
C15_InterceptionNeverLeaks ==
    /\ \A r \in ReturnedRuns :
          /\ runs[r].after.log = runs[r].before.log
          /\ runs[r].after.error = runs[r].before.error
    /\ \A m \in Methods :
          console[m].kind = "capture" =>
             loggers[console[m].logger].originalConsole[m].kind = "native"

\* C16 (as claimed): once finalize has written the closing block of a run,
\* nothing more is appended to that run's record: in every record the
\* closing block is the last line.
C16_SealedByFinalize ==
    \A id \in DOMAIN runRecords :
       \A k \in 1..Len(runRecords[id]) :
          runRecords[id][k].level = "CLOSING" => k = Len(runRecords[id])

ResultsFor(k, failed) ==
    Cardinality({v \in PipelineViews :
                    /\ k <= Len(v.rs)
                    /\ (v.rs[k].result = Null) = failed})

\* C18 (as claimed): at every point of a batch, for every configured agent,
\* successful is the number of results recorded so far for that agent
\* without an error and failed the number of those with one, so that
\* successful + failed is the number of its results; after the batch this
\* sum is the number of documents whose content was read.
C18_StatisticsOncePerOutcome ==
    agentStats # <<>> =>
       \A k \in 1..Len(agents) :
          /\ agentStats[agents[k]].successful = ResultsFor(k, FALSE)
          /\ agentStats[agents[k]].failed = ResultsFor(k, TRUE)
          /\ BatchOver =>
                agentStats[agents[k]].successful + agentStats[agents[k]].failed
                   = Len(enhancements)

\* ------------------------------------------------------------ C19
\* C19: when the agent leaves its working copy untouched, runAgentSafely
\* returns a result whose content is the content value the call was given,
\* whatever payload the agent returned.  (At the return statement of the
\* primary path the value about to be returned is {...result, content:
\* resultContent}; the fallback path returns the content it was given by
\* construction.)
C19_UntouchedReturnsGiven ==
    (pc = "removeTemp" /\ callLog.untouched) =>
       WithContent(result, resultContent).content = currentContent

\* ------------------------------------------------------------ C20
\* runAgentSafely is under way
InWrapper ==
    pc \in {"writeTemp", "agentRun", "readBack", "removeTemp", "cleanup",
            "fallbackRun"}

\* the wrapper calls that have thrown
Thrown == {j \in DOMAIN started :
             <<started[j].doc, started[j].agent>> \in wrapperThrew}

C21_ContentModifiedTellsChange ==
    \A v \in PipelineViews :
       \A k \in DOMAIN v.rs :
          v.rs[k].contentModified <=>
             \E e \in DOMAIN v.ev : v.ev[e].stage = v.rs[k].agentName

\* ------------------------------------------------------------ C22
\* C22: every document returned by document discovery is run through the
\* agent pipeline: once runRAGProcessing has returned, each discovered
\* document is in the enhancements or in the errors of the batch.
C22_DiscoveredDocumentsProcessed ==
    rag.pc = "done" =>
       \A d \in Range(rag.discovered) :
          \/ \E e \in Range(enhancements) : e.relativePath = d.path
          \/ \E x \in Range(errors) : x.file = d.title

C24_FallbackOnlyAfterSetupFailure ==
    pc = "fallbackRun" => callLog.invoked = 1

\* ------------------------------------------------------------ C25
\* C25: any two wrapper invocations, for the same or for different agents,
\* use different temp file paths.
C25_DistinctIdentifiers ==
    (naming.pc = "naming" /\ naming.paths[1] # NotNamed) =>
       naming.paths[1] # naming.paths[2]

\* ------------------------------------------------------------ C26
\* the agents of an enhancement that succeeded and whose payload holds c as
\* content or restructuredContent
SuccessfulWith(e, c) ==
    {k \in DOMAIN e.agentResults :
        LET r == e.agentResults[k]
        IN  /\ r.result # Null
            /\ \/ r.result.content = c
               \/ /\ "restructuredContent" \in DOMAIN r.result
                  /\ r.result.restructuredContent = c}

\* C26: the finalContent of every enhancement is the content of the last
\* entry of its snapshot sequence: the original content when no agent
\* changed the content, else what the successful agent named in that last
\* entry returned; originalContent is the content read at the start of the
\* document's pipeline.  While a pipeline runs, the current content is the
\* content of the last snapshot entry.
C26_FinalContentIsLastSnapshot ==
    /\ \A e \in Range(enhancements) :
          LET ev == e.contentEvolution
              last == ev[Len(ev)]
          IN  /\ e.finalContent = last.content
              /\ ev[1] = [stage |-> "original", content |-> e.originalContent]
              /\ e.originalContent = OriginalOf[e.filePath]
              /\ Len(ev) = 1 => e.finalContent = e.originalContent
              /\ Len(ev) > 1 =>
                    \E k \in SuccessfulWith(e, e.finalContent) :
                       e.agentResults[k].agentName = last.stage
    /\ InPipeline =>
          currentContent = contentEvolution[Len(contentEvolution)].content

\* C26 witness: an enhancement whose content was changed by an agent that was
\* not the last to run, and a document whose content no agent changed
C26_Witness ==
    /\ \E e \in Range(enhancements) :
          /\ Len(e.contentEvolution) > 1
          /\ e.finalContent # e.originalContent
          /\ e.contentEvolution[Len(e.contentEvolution)].stage
                # e.agentResults[Len(e.agentResults)].agentName
    /\ \E e \in Range(enhancements) : Len(e.contentEvolution) = 1

\* ------------------------------------------------------------ C27
\* execute got past its input validation
Validated == pc \in {"read", "agent", "summary", "publishing"} \/ InPipeline
                \/ (pc \in {"returned", "teamDone"} /\ returned # None
                    /\ returned.success)

\* the publisher has been called and has not settled
Publishing == pc = "publishing"

\* C27: for every batch that passes input validation the publisher is called
\* exactly once, after the last document has been processed and before
\* execute finalizes the Run Record and returns; the payload has one entry
\* per enhancement, in document order, with that document's finalContent as
\* enhancedContent and its originalContent; documents that failed have no
\* entry.  A batch that fails validation never reaches the publisher.
C27_PublishedOncePerBatch ==
    /\ publisherCalls \in {0, 1}
    /\ publisherCalls = 1 <=>
          (Publishing \/ (pc \in {"returned", "teamDone"} /\ returned # None
                          /\ returned.success))
    /\ publisherCalls = 1 => Validated
    /\ Publishing => returned = None /\ fileIdx = Len(ctxFiles) + 1
    /\ publisherCalls = 0 => prPayload = None
    /\ publisherCalls = 1 =>
          /\ Len(prPayload) = Len(enhancements)
          /\ Len(prPayload) + Cardinality(FailedDocs) = Len(ctxFiles)
          /\ \A k \in DOMAIN prPayload :
                /\ prPayload[k].relativePath = enhancements[k].relativePath
                /\ prPayload[k].enhancedContent = enhancements[k].finalContent
                /\ prPayload[k].originalContent = enhancements[k].originalContent
                /\ DocAt(prPayload[k].filePath) \notin FailedDocs
          /\ \A j, k \in DOMAIN prPayload :
                j < k => DocAt(prPayload[j].filePath) < DocAt(prPayload[k].filePath)

\* C27 witness: the publisher was called and has settled for a batch in which
\* the first document failed and the second was enhanced with new content
C27_Witness ==
    /\ pc \in {"returned", "teamDone"}
    /\ publisherCalls = 1
    /\ 1 \in FailedDocs
    /\ Len(prPayload) = 1
    /\ prPayload[1].enhancedContent # prPayload[1].originalContent

\* ------------------------------------------------------------ C28
\* a call of addAgent has just returned
AddAgentReturned ==
    /\ team'.pc = "ready"
    /\ team'.last.op = "addAgent"
    /\ \/ team.last.op # "addAgent"
       \/ team.last.arg # team'.last.arg
       \/ team.last.ret # team'.last.ret
       \/ team.agents # team'.agents

\* C28: after any sequence of addAgent, addAgents, removeAgent, initialize
\* and reset calls the team holds at most maxAgents (6) agents; addAgent on a
\* full team returns false and leaves the agent list unchanged, and otherwise
\* appends the agent at the end and returns true.
C28_TeamHoldsAtMostMaxAgents ==
    /\ [](team.pc # "idle" => Len(team.agents) <= maxAgents)
    /\ [][AddAgentReturned =>
             IF Len(team.agents) = maxAgents
             THEN /\ team'.last.ret = FALSE
                  /\ team'.agents = team.agents
             ELSE /\ team'.last.ret = TRUE
                  /\ Len(team'.agents) = Len(team.agents) + 1
                  /\ SubSeq(team'.agents, 1, Len(team.agents)) = team.agents
                  /\ team'.agents[Len(team'.agents)] = team'.last.arg]_vars

\* C28 witness: a full team has refused an agent
C28_Witness ==
    /\ team.pc = "ready"
    /\ team.last.op = "addAgent"
    /\ team.last.ret = FALSE
    /\ Len(team.agents) = maxAgents

\* ------------------------------------------------------------ C29
\* C29: the agentCount of the summary processDocuments returns is the number
\* of agents the task ran on each document, the length of every
\* enhancement's agentResults, whatever addAgent and removeAgent calls were
\* made on the team between initialize and processDocuments.
C29_AgentCountIsAgentsRun ==
    (team.pc = "batch" /\ pc = "teamDone" /\ teamReturned.success) =>
        \A e \in Range(teamReturned.enhancements) :
            Len(e.agentResults) = teamReturned.summary.agentCount

\* ------------------------------------------------------------ C30
\* the requests of commitProposedEnhancement
CommitRequests == {"repos.getContent", "repos.createOrUpdateFileContents"}

\* the requests createEnhancementPR makes before its loop
SetupRequests == {"repos.get", "git.getRef", "git.createRef"}

\* the positions of the requests sent so far to one of the given endpoints
Sent(apis) == {i \in DOMAIN tool.requests : tool.requests[i].api \in apis}

\* C30: createEnhancementPR creates the branch before committing any file,
\* commits a file only for enhancements that carry enhanced content, and
\* opens the pull request only after every commit has been attempted; a
\* failed commit of one file stops neither the remaining commits nor the
\* pull request, while a failure to read the repository or to create the
\* branch yields {success: false} with no commit and no pull request
\* attempted.
C30_BranchThenCommitsThenPR ==
    tool.pc # "idle" =>
    LET R == tool.requests
        carrying == {k \in DOMAIN tool.proposed :
                        Truthy(tool.proposed[k].enhancedContent)}
        written(k) == {i \in Sent({"repos.createOrUpdateFileContents"}) :
                          R[i].idx = k}
    IN  /\ \A i \in Sent(CommitRequests) :
              /\ \E j \in 1..(i - 1) : R[j] = Request("git.createRef", 0, TRUE)
              /\ R[i].idx \in carrying
        /\ \A k \in DOMAIN tool.proposed : Cardinality(written(k)) <= 1
        /\ \A i \in Sent({"pulls.create"}) :
              /\ \A k \in carrying : \E j \in written(k) : j < i
              /\ \A j \in Sent(CommitRequests) : j < i
        /\ (tool.pc = "done" /\ \A i \in Sent(SetupRequests) : R[i].ok) =>
              /\ Sent({"pulls.create"}) # {}
              /\ \A k \in carrying : written(k) # {}
        /\ (\E i \in Sent(SetupRequests) : ~R[i].ok) =>
              /\ tool.pc = "done"
              /\ tool.returned.success = FALSE
              /\ Sent(CommitRequests) = {}
              /\ Sent({"pulls.create"}) = {}

\* C30 witness: the commit of the first file failed, the second file was
\* committed afterwards and the pull request was opened
C30_Witness ==
    /\ tool.pc = "done"
    /\ tool.returned.success
    /\ \E i, j \in Sent({"repos.createOrUpdateFileContents"}) :
          /\ i < j
          /\ ~tool.requests[i].ok
          /\ tool.requests[j].ok

====
